--------------------------- MODULE Spec2Model ---------------------------
(* TickGrinder: the instance supervisor (spawner), the backtester and its   *)
(* early-exit predicate, the tick parser's moving average, the codec of     *)
(* commands and the guards of the shared maps, modelled as state machines.  *)
(*                                                                          *)
(* Eleven specifications share this module; each one moves its own variables  *)
(* and leaves the others at their initial values:                           *)
(*   SpecExit  check_early_exit as a pure function over bounded inputs      *)
(*   SpecSup   the spawner: bootstrap, command listener, heartbeat          *)
(*   SpecBt    the backtester: command listener, engines, tick workers      *)
(*   SpecRun   one backtest under every pair of early-exit limits           *)
(*   SpecMsg   the two command listeners, whichever process moves first     *)
(*   SpecSma   one SimpleMovingAverage of any period under push, push_tick  *)
(*   SpecSmaList  an SMAList under add, remove, push_all                    *)
(*   SpecCodec to_string then from_str of a command or response value       *)
(*   SpecLock  the threads' critical sections, step by step                 *)
(*   SpecFwd   the backtester forwarding control events, under fairness     *)
(*   SpecHb    the heartbeat and an instance that has died, under fairness  *)
EXTENDS Integers, Sequences, FiniteSets

VARIABLES
    \* ---- check_early_exit harness
    ce_def,        \* the BacktestDefinition's two limits
    ce_ts,         \* t.timestamp
    ce_i,          \* the tick count i
    ce_called,     \* check_early_exit has been called on these inputs
    ce_out,        \* the value it returned
    \* ---- spawner (InstanceManager)
    living,        \* self.living: sequence of Instance records
    sup_pc,        \* position of the thread running init()
    sup_listening, \* the listener thread of listen() has been spawned
    dead_instance, \* the Instance get_missing_instance returned (or NoInstance)
    type_res,      \* what the Type query of the current round resolved to
    kills,         \* channels the last step sent Kill to, in order
    sup_exit,      \* "no", "scheduled" (Kill handled, 3 s to live) or "exited"
    sup_last,      \* the command the last step handled and the response it published
    stragglers,    \* init(): the responses the startup ping_all() resolved to
    launched,      \* the child process the last step spawned (or NoLaunch)
    \* ---- backtester
    running_backtests, \* keys of the handle map: uuids of the registered backtests
    bt,            \* uuid -> definition, engine, control channel, worker, tick count
    bt_listening,  \* the for loop of Backtester::listen() is still running
    simbrokers,    \* Backtester.simbrokers: the keys of the HashMap
    bt_exit,       \* "no", "scheduled" (Kill handled), "exited"
    bt_last,       \* the command the last step handled and the response it published
    \* ---- tick parser
    sma,           \* one SimpleMovingAverage, its last call and what came of it
    smas,          \* the SMAList: its members and the last call made on it
    \* ---- commands.rs
    codec,         \* a value, its encoded text and what decoding the text gave
    \* ---- the mutexes of the shared maps
    lk             \* who holds each guard, the steps each thread has left, the channel

exitVars == <<ce_def, ce_ts, ce_i, ce_called, ce_out>>
supVars  == <<living, sup_pc, sup_listening, dead_instance, type_res,
              kills, sup_exit, sup_last, stragglers, launched>>
btVars   == <<running_backtests, bt, bt_listening, bt_last, simbrokers, bt_exit>>
smaVars  == <<sma, smas>>
restVars == <<smaVars, codec, lk>>
vars     == <<exitVars, supVars, btVars, restVars>>

\* the value of a variable whose component a specification leaves out
Absent == <<>>

-----------------------------------------------------------------------------
(* Option<usize>: is_some() and unwrap()                                    *)
None    == [some |-> FALSE, val |-> 0]
Some(n) == [some |-> TRUE, val |-> n]

-----------------------------------------------------------------------------
(* check_early_exit                                                         *)

\* largest limit, timestamp and count the harness draws
MaxLimit == 3

OptLimit == {None} \cup {Some(n) : n \in 0..MaxLimit}

\* the comparison of a limit with a value, `limit <= value`
LimitReached(limit, value) == limit <= value

\* check_early_exit without its second test
check_early_exit_count_only(ts, def, i) ==
    IF def.max_tick_n.some /\ LimitReached(def.max_tick_n.val, i)
    THEN TRUE
    ELSE FALSE

\* fn check_early_exit(t, def, i) -> bool
check_early_exit(ts, def, i) ==
    IF def.max_tick_n.some /\ LimitReached(def.max_tick_n.val, i)
    THEN TRUE
    ELSE IF def.max_timestamp.some /\ LimitReached(def.max_timestamp.val, ts)
         THEN TRUE
         ELSE FALSE

\* one call of check_early_exit on the drawn inputs
CallCheckEarlyExit ==
    /\ ~ce_called
    /\ ce_called' = TRUE
    /\ ce_out' = check_early_exit(ce_ts, ce_def, ce_i)
    /\ UNCHANGED <<ce_def, ce_ts, ce_i>>
    /\ UNCHANGED <<supVars, btVars, restVars>>

-----------------------------------------------------------------------------
(* Responses (commands.rs) and the strings they carry                       *)

\* Uuid::hyphenated().to_string(): the text form of a uuid
Hyphenated(u) == <<"uuid", u>>

\* enum Response { Ok, Error{status}, Pong{args}, Info{info} }
ResOk          == [tag |-> "Ok", val |-> <<>>]
ResError(s)    == [tag |-> "Error", val |-> <<s>>]
ResPong(args)  == [tag |-> "Pong", val |-> args]
ResInfo(info)  == [tag |-> "Info", val |-> <<info>>]

\* no response published (the message did not parse)
NoResponse     == [tag |-> "none", val |-> <<>>]

\* a wrap that stamps an id of its own
Wrap_own_id(res, uuid) == [uuid |-> 0, res |-> res]

\* Response::wrap(uuid): the WrappedResponse published on the responses channel
Wrap(res, uuid) == [uuid |-> uuid, res |-> res]

\* nothing published
NoPublished == [uuid |-> 0, res |-> NoResponse]

-----------------------------------------------------------------------------
(* The spawner: InstanceManager                                             *)

\* instance uuids other than the spawner's own are 1..MaxInst
MaxInst == 1

\* the living list never grows past this length (Ready is refused beyond it)
MaxLiving == 2

\* correlation uuids of inbound wrapped commands are 1..MaxCorr
MaxCorr == 1

\* self.uuid
OwnUuid == 0

InstUuids == 1..MaxInst
AllUuids  == {OwnUuid} \cup InstUuids
CorrUuids == 1..MaxCorr

\* the correlation id of the commands of the specifications that follow one
\* process; the ids of SpecMsg are those of CorrUuids
FirstCorr == {1}

\* instance_type strings a Ready carries
Kinds == {"MM"}

\* instance_type strings a Type query is answered with
TypeKinds == {"MM", "Spawner"}

\* struct Instance { instance_type, uuid }
Instance(kind, uuid) == [instance_type |-> kind, uuid |-> uuid]

\* Option<Instance>::None
NoInstance == [instance_type |-> "none", uuid |-> OwnUuid]

\* uuids of the records of a living list
Uuids(l) == {l[k].uuid : k \in 1..Len(l)}

\* number of records of a living list that carry uuid u
Count(l, u) == Cardinality({k \in 1..Len(l) : l[k].uuid = u})

\* an add_instance that pushes nothing
add_instance_drops(l, inst) == l

\* fn add_instance(&self, inst): ll.push(inst)
add_instance(l, inst) == Append(l, inst)

\* fn remove_instance(&self, uuid): the loop keeps the LAST matching index in _i
\* and ll.remove(_i) removes that one record
remove_instance(l, uuid) ==
    LET matching == {k \in 1..Len(l) : l[k].uuid = uuid}
    IN  IF matching = {}
        THEN l
        ELSE LET i == CHOOSE k \in matching : \A j \in matching : j <= k
             IN  SubSeq(l, 1, i - 1) \o SubSeq(l, i + 1, Len(l))

\* the inner loop of get_missing_instance: some Pong with args[0] = the text form
\* of inst.uuid; malformed Pongs and other responses are skipped
Present(inst, resps) ==
    \E res \in resps :
        /\ res.tag = "Pong"
        /\ Len(res.val) >= 1
        /\ Hyphenated(inst.uuid) = res.val[1]

\* fn get_missing_instance(&self, responses) -> Option<Instance>:
\* the first instance of the list no Pong names
get_missing_instance(l, resps) ==
    LET missing == {k \in 1..Len(l) : ~Present(l[k], resps)}
    IN  IF missing = {}
        THEN NoInstance
        ELSE l[CHOOSE k \in missing : \A j \in missing : k <= j]

\* what a broadcast Ping can bring back: Pongs naming a uuid, a malformed Pong,
\* a response that is no Pong
PingResponses ==
    {ResPong(<<Hyphenated(u)>>) : u \in AllUuids} \cup {ResPong(<<>>), ResOk}

\* what cs.execute(Command::Type, uuid).wait().unwrap() can resolve to:
\* Err(_) after the retries timed out, or Ok(response)
TypeErr     == [kind |-> "Err", res |-> NoResponse]
TypeOk(res) == [kind |-> "Ok", res |-> res]

\* no Type query made in this round (yet)
TypeNone    == [kind |-> "none", res |-> NoResponse]

TypeOutcomes ==
    {TypeErr} \cup {TypeOk(ResInfo(k)) : k \in TypeKinds}
              \cup {TypeOk(ResOk), TypeOk(ResError("unknown command"))}

\* CONF.kill_stragglers
kill_stragglers == TRUE

\* responses the startup ping_all() collects: at most this many
MaxStragglers == 2

\* what the startup Ping can bring back: the spawner's listener is not started
\* yet and its uuid is fresh, so no Pong names it; a responder may answer more
\* than once
StartupResponses ==
    {ResPong(<<Hyphenated(u)>>) : u \in InstUuids} \cup {ResPong(<<>>), ResOk}

\* enum Command, as far as the spawner tells its variants apart, and the
\* channel of sub_multiple the message came in on, which listen() drops
Cmd(name) ==
    [name |-> name, instance_type |-> "", uuid |-> OwnUuid, channel |-> "control"]
CmdReady(kind, uuid) ==
    [name |-> "Ready", instance_type |-> kind, uuid |-> uuid, channel |-> "control"]

\* the same command published on the channel named by the spawner's own uuid
OnPersonal(cmd) == [cmd EXCEPT !.channel = "personal"]

SpawnNames ==
    {"SpawnMM", "SpawnOptimizer", "SpawnTickParser", "SpawnBacktester",
     "SpawnFxcmDataDownloader"}

\* variants handle_command has no arm for (tick parser, backtester, ...)
SupForeignNames == {"AddSMA", "StartBacktest"}

SupCommands ==
    {Cmd(n) : n \in {"Ping", "Kill", "Type", "KillAllInstances", "Census"}
                    \cup SpawnNames \cup SupForeignNames}
    \cup {CmdReady(k, u) : k \in Kinds, u \in InstUuids}
    \cup {OnPersonal(Cmd("Ping"))}

\* nothing handled yet
NoCmd == Cmd("none")

\* the channels kill_all sends Kill to: one per drained record, in list order
KillTargets(l) == [k \in 1..Len(l) |-> Hyphenated(l[k].uuid)]

\* the channels the bootstrap sends Kill to: args[0] of every well-formed Pong
RECURSIVE StragglerTargets(_)
StragglerTargets(resps) ==
    IF resps = <<>>
    THEN <<>>
    ELSE LET r == Head(resps)
             rest == StragglerTargets(Tail(resps))
         IN  IF r.tag = "Pong" /\ Len(r.val) >= 1
             THEN <<r.val[1]>> \o rest
             ELSE rest

\* fn census(&self) -> Response: Info with the JSON text of the list, of which
\* the model keeps the number of records
census(l) == ResInfo(<<"census", Len(l)>>)

\* a handle_command whose Pong names nobody
SupResponse_anonymous_pong(cmd, l) ==
    IF cmd.name = "Ping" THEN ResPong(<<>>) ELSE ResOk

\* the Response handle_command completes its oneshot with
SupResponse(cmd, l) ==
    CASE cmd.name = "Ping" -> ResPong(<<Hyphenated(OwnUuid)>>)
      [] cmd.name = "Kill" -> ResInfo("Shutting down in 3 seconds...")
      [] cmd.name = "Type" -> ResInfo("Spawner")
      [] cmd.name = "Ready" -> ResOk
      [] cmd.name = "KillAllInstances" -> ResOk
      [] cmd.name = "Census" -> census(l)
      [] cmd.name \in SpawnNames -> ResOk
      [] OTHER -> ResError("Command not accepted by the instance spawner")

\* the executable each spawn_* function starts
Program(name) ==
    CASE name = "SpawnMM" -> "mm/manager.js"
      [] name = "SpawnOptimizer" -> "optimizer"
      [] name = "SpawnTickParser" -> "tick_processor"
      [] name = "SpawnBacktester" -> "backtester"
      [] name = "SpawnFxcmDataDownloader" -> "fxcm_native_downloader"

\* Uuid::new_v4() in spawn_*: an id no record of the list carries and that is
\* not the spawner's own
NewChildUuid(l) ==
    CHOOSE u \in 1..(Len(l) + 1) : u \notin Uuids(l)

\* process::Command::new(path).arg(mod_uuid).spawn(): the child and its id
Launch(name, l) == [program |-> Program(name), uuid |-> NewChildUuid(l)]

\* no child spawned
NoLaunch == [program |-> "none", uuid |-> 0]

\* a handle_command that registers the child as it spawns it
SupLiving_spawn_registers(cmd, l) ==
    CASE cmd.name = "Ready" -> Append(l, Instance(cmd.instance_type, cmd.uuid))
      [] cmd.name = "KillAllInstances" -> <<>>
      [] cmd.name \in SpawnNames -> Append(l, Instance("MM", NewChildUuid(l)))
      [] OTHER -> l

\* self.living after handle_command
SupLiving(cmd, l) ==
    CASE cmd.name = "Ready" -> add_instance(l, Instance(cmd.instance_type, cmd.uuid))
      [] cmd.name = "KillAllInstances" -> <<>>
      [] OTHER -> l

\* the last step handled no command
NoLast == [cmd |-> NoCmd, uuid |-> 0, published |-> NoPublished]

SupRunning == sup_exit # "exited"

\* a step of the spawner leaves the other components alone
SupFrame == UNCHANGED <<exitVars, btVars, restVars>>

\* 1 while init() has still to push the spawner's own record
SelfPending == IF sup_pc \in {"bootstrap", "listen", "register"} THEN 1 ELSE 0

\* init(): spawn_mm, the startup ping_all and the Kill of every straggler
Bootstrap ==
    /\ SupRunning /\ sup_pc = "bootstrap"
    /\ kill_stragglers
    /\ \E n \in 0..MaxStragglers : stragglers' \in [1..n -> StartupResponses]
    /\ kills' = StragglerTargets(stragglers')
    /\ launched' = Launch("SpawnMM", living)
    /\ sup_pc' = "listen"
    /\ sup_last' = NoLast
    /\ UNCHANGED <<living, sup_listening, dead_instance, type_res, sup_exit>>
    /\ SupFrame

\* init(): self.listen() spawns the listener thread
StartListen ==
    /\ SupRunning /\ sup_pc = "listen"
    /\ sup_listening' = TRUE
    /\ sup_pc' = "register"
    /\ launched' = NoLaunch
    /\ kills' = <<>> /\ sup_last' = NoLast /\ stragglers' = <<>>
    /\ UNCHANGED <<living, dead_instance, type_res, sup_exit>>
    /\ SupFrame

\* init(): register self as an instance
RegisterSelf ==
    /\ SupRunning /\ sup_pc = "register"
    /\ living' = Append(living, Instance("Spawner", OwnUuid))
    /\ sup_pc' = "ping"
    /\ launched' = NoLaunch
    /\ kills' = <<>> /\ sup_last' = NoLast
    /\ UNCHANGED <<sup_listening, dead_instance, type_res, sup_exit, stragglers>>
    /\ SupFrame

\* heartbeat: ping_all().wait() and get_missing_instance(responses)
HbPing ==
    /\ SupRunning /\ sup_pc = "ping"
    /\ \E resps \in SUBSET PingResponses :
           dead_instance' = get_missing_instance(living, resps)
    /\ type_res' = TypeNone
    /\ sup_pc' = IF dead_instance' = NoInstance THEN "sleep" ELSE "remove"
    /\ launched' = NoLaunch
    /\ kills' = <<>> /\ sup_last' = NoLast
    /\ UNCHANGED <<living, sup_listening, sup_exit, stragglers>>
    /\ SupFrame

\* heartbeat: self.remove_instance(dead_instance.uuid)
HbRemove ==
    /\ SupRunning /\ sup_pc = "remove"
    /\ living' = remove_instance(living, dead_instance.uuid)
    /\ sup_pc' = "query"
    /\ launched' = NoLaunch
    /\ kills' = <<>> /\ sup_last' = NoLast
    /\ UNCHANGED <<sup_listening, dead_instance, type_res, sup_exit, stragglers>>
    /\ SupFrame

\* the match on the Type query's result without the add_instance of its Info arm
LivingAfterType_no_readd(l, inst, outcome) == l

\* self.living after the match on the Type query's result
LivingAfterType(l, inst, outcome) ==
    IF outcome.kind = "Ok" /\ outcome.res.tag = "Info"
    THEN add_instance(l, Instance(outcome.res.val[1], inst.uuid))
    ELSE l

\* heartbeat: the Type query to the missing instance resolves and is matched
HbType ==
    /\ SupRunning /\ sup_pc = "query"
    /\ \E outcome \in TypeOutcomes :
           /\ type_res' = outcome
           /\ living' = LivingAfterType(living, dead_instance, outcome)
    /\ sup_pc' = "sleep"
    /\ launched' = NoLaunch
    /\ kills' = <<>> /\ sup_last' = NoLast
    /\ UNCHANGED <<sup_listening, dead_instance, sup_exit, stragglers>>
    /\ SupFrame

\* heartbeat: thread::sleep(350 ms), then the next round
HbSleep ==
    /\ SupRunning /\ sup_pc = "sleep"
    /\ sup_pc' = "ping"
    /\ dead_instance' = NoInstance
    /\ type_res' = TypeNone
    /\ launched' = NoLaunch
    /\ kills' = <<>> /\ sup_last' = NoLast
    /\ UNCHANGED <<living, sup_listening, sup_exit, stragglers>>
    /\ SupFrame

\* listen(): one well-formed WrappedCommand with this correlation id is
\* handled and its response published
SupHandle(uuid) ==
    /\ SupRunning /\ sup_listening
    /\ \E cmd \in SupCommands :
           /\ cmd.name = "Ready" => Len(living) + SelfPending < MaxLiving
           /\ living' = SupLiving(cmd, living)
           /\ kills' = IF cmd.name = "KillAllInstances" THEN KillTargets(living) ELSE <<>>
           /\ launched' = IF cmd.name \in SpawnNames
                           THEN Launch(cmd.name, living) ELSE NoLaunch
           /\ sup_exit' = IF cmd.name = "Kill" THEN "scheduled" ELSE sup_exit
           /\ sup_last' = [cmd |-> cmd, uuid |-> uuid,
                           published |-> Wrap(SupResponse(cmd, living), uuid)]
    /\ UNCHANGED <<sup_pc, sup_listening, dead_instance, type_res, stragglers>>
    /\ SupFrame

\* the listener of SpecSup and its next command
SupListen == \E uuid \in FirstCorr : SupHandle(uuid)

\* the marker sup_last carries after a message that did not parse
MalformedCmd == Cmd("malformed")

\* listen(): WrappedCommand::from_str fails; the Err arm prints and the
\* for_each goes on with the next message
SupMalformed ==
    /\ SupRunning /\ sup_listening
    /\ sup_last' = [cmd |-> MalformedCmd, uuid |-> 0, published |-> NoPublished]
    /\ launched' = NoLaunch
    /\ kills' = <<>>
    /\ UNCHANGED <<living, sup_pc, sup_listening, dead_instance, type_res,
                   sup_exit, stragglers>>
    /\ SupFrame

\* the thread spawned by Kill: std::process::exit(0) after 3 seconds
SupExit ==
    /\ sup_exit = "scheduled"
    /\ sup_exit' = "exited"
    /\ launched' = NoLaunch
    /\ kills' = <<>> /\ sup_last' = NoLast
    /\ UNCHANGED <<living, sup_pc, sup_listening, dead_instance, type_res, stragglers>>
    /\ SupFrame

SupNext ==
    \/ Bootstrap \/ StartListen \/ RegisterSelf
    \/ HbPing \/ HbRemove \/ HbType \/ HbSleep
    \/ SupListen \/ SupMalformed \/ SupExit

-----------------------------------------------------------------------------
(* The backtester: Backtester::listen, start_backtest, the tick worker      *)

\* capacity of mpsc::sync_channel::<BacktestCommand>(5)
ChanCap == 5

\* backtests started in one run: at most this many
MaxBacktests == 1

\* simbrokers spawned in one run: at most this many
MaxSimbrokers == 1

\* ticks one backtest's source is asked for: at most this many
MaxTicks == 2

\* control events the listener sends while earlier ones are still waiting in
\* the channels: the channels hold fewer than this many when it sends
MaxQueued == 1

\* ticks in the flatfile of a Flatfile source
FlatfileTicks == 1

\* uuids a backtest command can name: those start_backtest hands out, and one
\* more that it never does
BtUuids == 1..(MaxBacktests + 1)

\* enum BacktestCommand
BacktestCommands == {"Pause", "Resume", "Stop"}

\* struct BacktestDefinition, as far as start_backtest and check_early_exit
\* read it
Definition(n, ts, src, dst) ==
    [max_tick_n |-> n, max_timestamp |-> ts, data_source |-> src, data_dest |-> dst]

\* enum DataDest: RedisChannel, Console and Null are the plain sinks, told
\* apart from SimBroker{uuid} only
Sink == [kind |-> "Sink", uuid |-> 0]
SimBrokerDest(id) == [kind |-> "SimBroker", uuid |-> id]

\* a definition string serde_json cannot parse
BadDefinition ==
    Definition(None, None, "unparsable", [kind |-> "unparsable", uuid |-> 0])

\* the k-th tick of a source: timestamps run 1, 2, 3, ...
TickTimestamp(k) == k

\* number of ticks a source yields before its stream ends (Random never ends:
\* the model stops asking after MaxTicks)
SourceTicks(def) ==
    IF def.data_source = "Flatfile" THEN FlatfileTicks ELSE MaxTicks

\* TickGenerator::get(map, handle_rx): a freshly opened stream begins paused
OpenedStream == "Paused"

\* who pulls the stream: the for_each worker of a plain sink, or the simbroker
\* that register_tickstream handed the stream to
StreamOwner(def) ==
    IF def.data_dest.kind = "SimBroker" THEN "simbroker" ELSE "active"

\* start_backtest sending Resume on the new handle before it returns
NewBacktest_resumes(def) ==
    [def |-> def, engine |-> OpenedStream, chan |-> <<"Resume">>,
     worker |-> StreamOwner(def), i |-> 0, resumed |-> FALSE, stop_taken |-> FALSE,
     stop_sent |-> FALSE]

\* the state start_backtest leaves a new backtest in: the stream opened by
\* src.get(map, handle_rx), an empty control channel, the for_each worker
\* of a plain sink with i = 0; resumed records that the listener forwarded a
\* Resume to it, stop_taken that its engine took a Stop off the channel,
\* stop_sent that its worker sent Stop on the internal sender
NewBacktest(def) ==
    [def |-> def, engine |-> OpenedStream, chan |-> <<>>,
     worker |-> StreamOwner(def), i |-> 0, resumed |-> FALSE, stop_taken |-> FALSE,
     stop_sent |-> FALSE]

\* the uuid of Uuid::new_v4() in start_backtest
NewUuid == Len(bt) + 1

\* the receiving end of the control channel is owned by the stream's
\* generator: it lives while the engine is paused or running
Alive(b) == bt[b].engine \in {"Paused", "Running"}

\* an engine that ignores Stop
EngineAfter_ignores_stop(engine, ev) ==
    CASE ev = "Pause" -> "Paused"
      [] ev = "Resume" -> "Running"
      [] ev = "Stop" -> engine

\* the engine's reaction to one control event
EngineAfter(engine, ev) ==
    CASE ev = "Pause" -> "Paused"
      [] ev = "Resume" -> "Running"
      [] ev = "Stop" -> "Stopped"

\* sender.send(ev) on the control channel of b: queued while the receiver
\* lives, an Err the callers drop once it is gone
Sent(b, ev) ==
    IF Alive(b)
    THEN [bt EXCEPT ![b].chan = Append(@, ev)]
    ELSE bt

\* send() blocks while the channel is full and its receiver alive
CanSend(b) == Alive(b) => Len(bt[b].chan) < ChanCap

\* control events waiting in the channels of the backtests 1..n
RECURSIVE Queued(_)
Queued(n) == IF n = 0 THEN 0 ELSE Len(bt[n].chan) + Queued(n - 1)

\* enum Command, as far as the backtester tells its variants apart
BtCmd(name, uuid, def) == [name |-> name, uuid |-> uuid, definition |-> def]

\* the BacktestCommand a Pause/Resume/StopBacktest command forwards
ControlEvent(name) ==
    CASE name = "PauseBacktest" -> "Pause"
      [] name = "ResumeBacktest" -> "Resume"
      [] name = "StopBacktest" -> "Stop"

ControlNames == {"PauseBacktest", "ResumeBacktest", "StopBacktest"}

\* commands whose arm of listen() only builds a reply; Census stands for the
\* variants the final arm rejects
ReplyNames == {"Ping", "Type", "ListBacktests", "Census"}

\* the last step handled no command
BtNoLast ==
    [cmd |-> BtCmd("none", 0, BadDefinition), uuid |-> 0,
     published |-> NoPublished, sent |-> "none"]

\* the uuid of the backtester itself
BacktesterUuid == 0

\* a lookup that finds every uuid start_backtest ever handed out
HasHandle_ever_started(handles, uuid) == uuid \in handles \/ uuid \in DOMAIN bt

\* send_backtest_cmd: handles.get(&uuid) finds a handle
HasHandle(handles, uuid) == uuid \in handles

\* a remove_backtest that removes nothing
remove_backtest_keeps(handles, uuid) == handles

\* fn remove_backtest(&mut self, uuid): handles.remove(&uuid)
remove_backtest(handles, uuid) == handles \ {uuid}

\* start_backtest: backtest_list.insert(uuid, handle)
insert_backtest(handles, uuid) == handles \cup {uuid}

\* definitions whose source cannot be opened: src.get(..) returns Err
OpensStream(def) == def.data_source \in {"Random", "Flatfile"}

\* a step of the backtester leaves the other components alone
BtFrame == UNCHANGED <<exitVars, supVars, restVars>>

\* std::process::exit(0) has not run
BtRunning == bt_exit # "exited"

\* a lookup that finds every simbroker
HasSimbroker_any(brokers, uuid) == TRUE

\* simbrokers.get_mut(&uuid) finds a simbroker
HasSimbroker(brokers, uuid) == uuid \in brokers

\* listen(): StartBacktest{definition}; limit caps the backtests of one run
ListenStart(def, uuid, limit) ==
    /\ BtRunning /\ bt_listening
    /\ IF def = BadDefinition
       THEN /\ bt_last' = [cmd |-> BtCmd("StartBacktest", 0, def), uuid |-> uuid,
                           published |-> Wrap(ResError("Can't parse backtest defition from String"), uuid),
                           sent |-> "none"]
            /\ UNCHANGED <<running_backtests, bt>>
       ELSE IF ~OpensStream(def)
       THEN /\ bt_last' = [cmd |-> BtCmd("StartBacktest", 0, def), uuid |-> uuid,
                           published |-> Wrap(ResError("Error creating tickstream"), uuid),
                           sent |-> "none"]
            /\ UNCHANGED <<running_backtests, bt>>
       ELSE IF /\ def.data_dest.kind = "SimBroker"
               /\ ~HasSimbroker(simbrokers, def.data_dest.uuid)
       THEN /\ bt_last' = [cmd |-> BtCmd("StartBacktest", 0, def), uuid |-> uuid,
                           published |-> Wrap(ResError("No SimBroker running with that Uuid!"), uuid),
                           sent |-> "none"]
            /\ UNCHANGED <<running_backtests, bt>>
       ELSE /\ Len(bt) < limit
            /\ bt' = Append(bt, NewBacktest(def))
            /\ running_backtests' = insert_backtest(running_backtests, NewUuid)
            /\ bt_last' = [cmd |-> BtCmd("StartBacktest", 0, def), uuid |-> uuid,
                           published |-> Wrap(ResInfo(Hyphenated(NewUuid)), uuid),
                           sent |-> "none"]
    /\ UNCHANGED <<bt_listening, simbrokers, bt_exit>>
    /\ BtFrame

\* listen(): PauseBacktest / ResumeBacktest / StopBacktest {uuid}, through
\* send_backtest_cmd and, for Stop, remove_backtest
ListenControl(name, target, uuid) ==
    /\ BtRunning /\ bt_listening
    /\ IF HasHandle(running_backtests, target)
       THEN /\ CanSend(target)
            /\ Queued(Len(bt)) < MaxQueued
            /\ bt' = [Sent(target, ControlEvent(name)) EXCEPT
                        ![target].resumed = @ \/ name = "ResumeBacktest"]
            /\ running_backtests' =
                   IF name = "StopBacktest"
                   THEN remove_backtest(running_backtests, target)
                   ELSE running_backtests
            /\ bt_last' = [cmd |-> BtCmd(name, target, BadDefinition), uuid |-> uuid,
                           published |-> Wrap(ResOk, uuid),
                           sent |-> ControlEvent(name)]
       ELSE /\ bt_last' = [cmd |-> BtCmd(name, target, BadDefinition), uuid |-> uuid,
                           published |-> Wrap(ResError("No backtest with that uuid!"), uuid),
                           sent |-> "none"]
            /\ UNCHANGED <<running_backtests, bt>>
    /\ UNCHANGED <<bt_listening, simbrokers, bt_exit>>
    /\ BtFrame

\* a listen() whose final arm replies Ok
BtResponse_unknown_ok(name) ==
    IF name \in {"Ping", "Type", "ListBacktests", "ListSimbrokers"}
    THEN ResInfo("known") ELSE ResOk

\* the Response of the arms of listen() that change nothing
BtResponse(name) ==
    CASE name = "Ping" -> ResPong(<<Hyphenated(BacktesterUuid)>>)
      [] name = "Type" -> ResInfo("Backtester")
      [] name = "ListBacktests" -> ResInfo(<<"backtests", Cardinality(running_backtests)>>)
      [] name = "ListSimbrokers" -> ResInfo(<<"simbrokers", Cardinality(simbrokers)>>)
      [] OTHER -> ResError("Backtester doesn't recognize that command.")

\* a listen() whose final arm goes on to the next message without a reply
ListenReply_skips_unknown(name, uuid) ==
    /\ BtRunning /\ bt_listening
    /\ bt_last' = [cmd |-> BtCmd(name, 0, BadDefinition), uuid |-> uuid,
                   published |-> IF BtResponse(name).tag = "Error"
                                 THEN NoPublished
                                 ELSE Wrap(BtResponse(name), uuid),
                   sent |-> "none"]
    /\ UNCHANGED <<running_backtests, bt, bt_listening, simbrokers, bt_exit>>
    /\ BtFrame

\* listen(): Ping, Type, ListBacktests, ListSimbrokers and the commands of
\* other modules
ListenReply(name, uuid) ==
    /\ BtRunning /\ bt_listening
    /\ bt_last' = [cmd |-> BtCmd(name, 0, BadDefinition), uuid |-> uuid,
                   published |-> Wrap(BtResponse(name), uuid), sent |-> "none"]
    /\ UNCHANGED <<running_backtests, bt, bt_listening, simbrokers, bt_exit>>
    /\ BtFrame

\* the uuid of Uuid::new_v4() in init_simbroker
NewSimbrokerUuid == Cardinality(simbrokers) + 1

\* listen(): SpawnSimbroker{settings} through init_simbroker
ListenSpawnSimbroker(uuid) ==
    /\ BtRunning /\ bt_listening
    /\ Cardinality(simbrokers) < MaxSimbrokers
    /\ simbrokers' = simbrokers \cup {NewSimbrokerUuid}
    /\ bt_last' = [cmd |-> BtCmd("SpawnSimbroker", 0, BadDefinition), uuid |-> uuid,
                   published |-> Wrap(ResInfo(Hyphenated(NewSimbrokerUuid)), uuid),
                   sent |-> "none"]
    /\ UNCHANGED <<running_backtests, bt, bt_listening, bt_exit>>
    /\ BtFrame

\* listen(): Kill spawns the thread that exits the process after 3 seconds
ListenKill(uuid) ==
    /\ BtRunning /\ bt_listening
    /\ bt_exit' = "scheduled"
    /\ bt_last' = [cmd |-> BtCmd("Kill", 0, BadDefinition), uuid |-> uuid,
                   published |-> Wrap(ResInfo("Backtester will self-destruct in 3 seconds."), uuid),
                   sent |-> "none"]
    /\ UNCHANGED <<running_backtests, bt, bt_listening, simbrokers>>
    /\ BtFrame

\* listen(): WrappedCommand::from_str fails; the Err arm prints and returns
\* from listen(), which ends the for loop over the subscription; main() has
\* nothing after listen() and returns, which ends the process
BtMalformed ==
    /\ BtRunning /\ bt_listening
    /\ bt_listening' = FALSE
    /\ bt_exit' = "exited"
    /\ bt_last' = [cmd |-> BtCmd("malformed", 0, BadDefinition), uuid |-> 0,
                   published |-> NoPublished, sent |-> "none"]
    /\ UNCHANGED <<running_backtests, bt, simbrokers>>
    /\ BtFrame

\* the thread spawned by Kill: std::process::exit(0) after 3 seconds
BtExit ==
    /\ bt_exit = "scheduled"
    /\ bt_exit' = "exited"
    /\ bt_last' = BtNoLast
    /\ UNCHANGED <<running_backtests, bt, bt_listening, simbrokers>>
    /\ BtFrame

\* a generator that reads its channel only while it is paused
EngineTake_only_while_paused(b) ==
    /\ BtRunning /\ bt[b].engine = "Paused" /\ bt[b].chan # <<>>
    /\ LET next == EngineAfter(bt[b].engine, Head(bt[b].chan))
       IN  bt' = [bt EXCEPT ![b].engine = next,
                            ![b].chan = IF next = "Stopped" THEN <<>> ELSE Tail(@),
                            ![b].stop_taken = @ \/ Head(bt[b].chan) = "Stop"]
    /\ bt_last' = BtNoLast
    /\ UNCHANGED <<running_backtests, bt_listening, simbrokers, bt_exit>>
    /\ BtFrame

\* the stream's generator takes the next control event off its channel; on
\* Stop it terminates and the channel's receiver is dropped with it
EngineTake(b) ==
    /\ BtRunning /\ Alive(b) /\ bt[b].chan # <<>>
    /\ LET next == EngineAfter(bt[b].engine, Head(bt[b].chan))
       IN  bt' = [bt EXCEPT ![b].engine = next,
                            ![b].chan = IF next = "Stopped" THEN <<>> ELSE Tail(@),
                            ![b].stop_taken = @ \/ Head(bt[b].chan) = "Stop"]
    /\ bt_last' = BtNoLast
    /\ UNCHANGED <<running_backtests, bt_listening, simbrokers, bt_exit>>
    /\ BtFrame

\* the for_each closure on the next tick of a running stream: i += 1,
\* dst.tick(t), check_early_exit; on true the worker leaves the loop with Err
Tick(b) ==
    /\ BtRunning /\ bt[b].engine = "Running" /\ bt[b].worker = "active"
    /\ bt[b].i < SourceTicks(bt[b].def)
    /\ LET i == bt[b].i + 1
       IN  bt' = [bt EXCEPT ![b].i = i,
                            ![b].worker =
                                IF check_early_exit(TickTimestamp(i), bt[b].def, i)
                                THEN "exiting" ELSE "active"]
    /\ bt_last' = BtNoLast
    /\ UNCHANGED <<running_backtests, bt_listening, simbrokers, bt_exit>>
    /\ BtFrame

\* or_else after an Err: internal_handle_tx.send(BacktestCommand::Stop)
WorkerStop(b) ==
    /\ BtRunning /\ bt[b].worker = "exiting"
    /\ CanSend(b)
    /\ bt' = [Sent(b, "Stop") EXCEPT ![b].worker = "done", ![b].stop_sent = TRUE]
    /\ bt_last' = BtNoLast
    /\ UNCHANGED <<running_backtests, bt_listening, simbrokers, bt_exit>>
    /\ BtFrame

\* a finite source runs out: the stream ends with Ok, for_each completes and
\* or_else is not run; the generator and its receiver are gone
StreamEnd(b) ==
    /\ BtRunning /\ bt[b].engine = "Running"
    /\ bt[b].def.data_source = "Flatfile"
    /\ bt[b].i = SourceTicks(bt[b].def)
    /\ bt' = [bt EXCEPT ![b].engine = "Ended", ![b].chan = <<>>,
                        ![b].worker = IF @ = "active" THEN "done" ELSE @]
    /\ bt_last' = BtNoLast
    /\ UNCHANGED <<running_backtests, bt_listening, simbrokers, bt_exit>>
    /\ BtFrame

\* the stream yields an Err item: for_each resolves with Err without calling
\* the closure again, and or_else is run next
StreamErr(b) ==
    /\ BtRunning /\ bt[b].engine = "Running" /\ bt[b].worker = "active"
    /\ bt' = [bt EXCEPT ![b].worker = "exiting"]
    /\ bt_last' = BtNoLast
    /\ UNCHANGED <<running_backtests, bt_listening, simbrokers, bt_exit>>
    /\ BtFrame

\* definitions the listener of SpecBt is sent
BtDefs ==
    {Definition(None, None, "Random", Sink),
     Definition(Some(1), None, "Random", Sink),
     Definition(None, None, "Flatfile", Sink),
     Definition(None, None, "Missing", Sink),
     BadDefinition}

\* definitions the listener of SpecRun is sent: every pair of limits
RunDefs ==
    {Definition(n, ts, src, Sink) :
         n \in {None} \cup {Some(k) : k \in 0..MaxTicks},
         ts \in {None} \cup {Some(k) : k \in 0..MaxTicks},
         src \in {"Random", "Flatfile"}}

BtListenStart == \E def \in BtDefs, uuid \in FirstCorr : ListenStart(def, uuid, MaxBacktests)
RunListenStart == \E def \in RunDefs, uuid \in FirstCorr : ListenStart(def, uuid, 1)
BtListenControl ==
    \E name \in ControlNames, target \in BtUuids, uuid \in FirstCorr :
        ListenControl(name, target, uuid)
BtListenReply == \E name \in ReplyNames, uuid \in FirstCorr : ListenReply(name, uuid)
BtEngineTake == \E b \in 1..Len(bt) : EngineTake(b)
BtTick == \E b \in 1..Len(bt) : Tick(b)
BtWorkerStop == \E b \in 1..Len(bt) : WorkerStop(b)
BtStreamEnd == \E b \in 1..Len(bt) : StreamEnd(b)
BtStreamErr == \E b \in 1..Len(bt) : StreamErr(b)

BtNext ==
    \/ BtListenStart \/ BtListenControl \/ BtListenReply
    \/ BtEngineTake \/ BtTick \/ BtWorkerStop \/ BtStreamEnd

RunNext ==
    \/ RunListenStart \/ BtListenControl \/ BtListenReply
    \/ BtEngineTake \/ BtTick \/ BtWorkerStop \/ BtStreamEnd \/ BtStreamErr

-----------------------------------------------------------------------------
(* The tick parser: SimpleMovingAverage and SMAList (sma.rs)                *)

\* longest period of an SMA
MaxPeriod == 3

\* latest timestamp of a tick
MaxTimestamp == 4

\* calls made on one SMA
MaxPushes == 3

\* struct Tick {bid, ask, timestamp}
MkTick(bid, ask, timestamp) == [bid |-> bid, ask |-> ask, timestamp |-> timestamp]

\* Tick::null(): the sentinel with bid = 0
NullTick == MkTick(0, 0, 0)

\* Tick::mid(): (bid + ask) / 2, integer-divided
mid(t) == (t.bid + t.ask) \div 2

\* <<bid, ask>> of the ticks pushed: two pairs share the mid 2, one of them
\* with bid = 0
Quotes == {<<0, 4>>, <<2, 2>>, <<3, 6>>}

\* ticks the callers push
Ticks == {MkTick(q[1], q[2], ts) : q \in Quotes, ts \in 0..MaxTimestamp}

\* VecDeque::back()
Back(ticks) == ticks[Len(ticks)]

\* an is_overflown that lets the window span the whole period
is_overflown_inclusive(ticks, period) ==
    Back(ticks).timestamp - Head(ticks).timestamp > period

\* fn is_overflown(&self): back() and front() are unwrapped, which panics on
\* an empty deque
is_overflown(ticks, period) ==
    Back(ticks).timestamp - Head(ticks).timestamp >= period

\* fn trim(&mut self) -> Tick: pops the front while is_overflown(); t is the
\* last tick popped; panics when the deque runs empty
RECURSIVE trim(_, _, _)
trim(ticks, period, t) ==
    IF ticks = <<>>
    THEN [ticks |-> ticks, t |-> t, panicked |-> TRUE]
    ELSE IF is_overflown(ticks, period)
    THEN trim(Tail(ticks), period, Head(ticks))
    ELSE [ticks |-> ticks, t |-> t, panicked |-> FALSE]

\* the loop of average(): p_sum over the adjacent pairs of ticks[k..]
RECURSIVE PSum(_, _)
PSum(ticks, k) ==
    IF k >= Len(ticks)
    THEN 0
    ELSE mid(ticks[k]) * (ticks[k + 1].timestamp - ticks[k].timestamp)
         + PSum(ticks, k + 1)

\* the loop of average(): t_sum over the adjacent pairs of ticks[k..]
RECURSIVE TSum(_, _)
TSum(ticks, k) ==
    IF k >= Len(ticks)
    THEN 0
    ELSE (ticks[k + 1].timestamp - ticks[k].timestamp) + TSum(ticks, k + 1)

\* an average that adds the reference tick's share and still divides by the
\* time the window spans
average_keeps_t_sum(ticks, ref_tick, period) ==
    LET p_sum == PSum(ticks, 1)
        t_sum == TSum(ticks, 1)
    IN  IF ref_tick.bid # 0
        THEN (p_sum + (period - t_sum) * mid(ref_tick)) \div t_sum
        ELSE p_sum \div t_sum

\* fn average(&self) -> usize
average(ticks, ref_tick, period) ==
    LET p_sum == PSum(ticks, 1)
        t_sum == TSum(ticks, 1)
    IN  IF ref_tick.bid # 0
        THEN (p_sum + (period - t_sum) * mid(ref_tick)) \div period
        ELSE p_sum \div t_sum

\* the loops of average_tick(): sums of bid (or ask) times the time it stood
RECURSIVE SideSum(_, _, _)
SideSum(ticks, k, side) ==
    IF k >= Len(ticks)
    THEN 0
    ELSE ticks[k][side] * (ticks[k + 1].timestamp - ticks[k].timestamp)
         + SideSum(ticks, k + 1, side)

\* fn average_tick(&self) -> Tick
average_tick(ticks, ref_tick, period) ==
    LET t_sum == TSum(ticks, 1)
    IN  IF ref_tick.bid # 0
        THEN MkTick((SideSum(ticks, 1, "bid") + (period - t_sum) * ref_tick.bid) \div period,
                  (SideSum(ticks, 1, "ask") + (period - t_sum) * ref_tick.ask) \div period,
                  Back(ticks).timestamp)
        ELSE MkTick(SideSum(ticks, 1, "bid") \div t_sum,
                  SideSum(ticks, 1, "ask") \div t_sum,
                  Back(ticks).timestamp)

\* what average() and average_tick() divide by; a division by zero panics
Divisor(ticks, ref_tick, period) ==
    IF ref_tick.bid # 0 THEN period ELSE TSum(ticks, 1)

\* SimpleMovingAverage::new(period), with what the model keeps about its
\* calls: hist is every tick a call appended, call/arg the last call, status
\* how it ended ("assert", "unwrap" and "zero" are panics), out / out_tick
\* what push / push_tick returned
SimpleMovingAverage(period) ==
    [period |-> period, ticks |-> <<>>, ref_tick |-> NullTick,
     hist |-> <<>>, call |-> "none", arg |-> NullTick, status |-> "new",
     out |-> 0, out_tick |-> NullTick]

\* an assert that lets a tick with the timestamp of the last one through
OutOfOrder_equal_passes(ticks, t) ==
    ticks # <<>> /\ t.timestamp < Back(ticks).timestamp

\* the assert! of push and push_tick fails
OutOfOrder(ticks, t) ==
    ticks # <<>> /\ ~(t.timestamp > Back(ticks).timestamp)

\* push and push_tick up to their return: the assert, push_back, and
\* is_overflown / trim
Pushed(s, t, call) ==
    IF OutOfOrder(s.ticks, t)
    THEN [s EXCEPT !.call = call, !.arg = t, !.status = "assert",
                   !.out = 0, !.out_tick = NullTick]
    ELSE LET appended == Append(s.ticks, t)
             trimmed == IF is_overflown(appended, s.period)
                        THEN trim(appended, s.period, NullTick)
                        ELSE [ticks |-> appended, t |-> s.ref_tick, panicked |-> FALSE]
         IN  [s EXCEPT !.call = call, !.arg = t,
                       !.hist = Append(@, t),
                       !.ticks = trimmed.ticks,
                       !.ref_tick = IF trimmed.panicked THEN @ ELSE trimmed.t,
                       !.status = IF trimmed.panicked THEN "unwrap" ELSE "ok",
                       !.out = 0, !.out_tick = NullTick]

\* pub fn push(&mut self, t: Tick) -> usize
push(s, t) ==
    LET after == Pushed(s, t, "push")
    IN  IF after.status # "ok"
        THEN after
        ELSE IF Len(after.ticks) = 1
        THEN [after EXCEPT !.out = mid(Head(after.ticks))]
        ELSE IF Divisor(after.ticks, after.ref_tick, after.period) = 0
        THEN [after EXCEPT !.status = "zero"]
        ELSE [after EXCEPT
                 !.out = average(after.ticks, after.ref_tick, after.period)]

\* pub fn push_tick(&mut self, t: Tick) -> Tick
push_tick(s, t) ==
    LET after == Pushed(s, t, "push_tick")
    IN  IF after.status # "ok"
        THEN after
        ELSE IF Len(after.ticks) = 1
        THEN [after EXCEPT !.out_tick = Head(after.ticks)]
        ELSE IF Divisor(after.ticks, after.ref_tick, after.period) = 0
        THEN [after EXCEPT !.status = "zero"]
        ELSE [after EXCEPT
                 !.out_tick = average_tick(after.ticks, after.ref_tick, after.period)]

\* a step of the tick parser leaves the other components alone
SmaFrame == UNCHANGED <<exitVars, supVars, btVars, codec, lk>>

\* the SMA has not panicked and is called once more
SmaCallable == sma.status \in {"new", "ok"} /\ Len(sma.hist) < MaxPushes

SmaPush ==
    /\ SmaCallable
    /\ \E t \in Ticks : sma' = push(sma, t)
    /\ UNCHANGED smas
    /\ SmaFrame

SmaPushTick ==
    /\ SmaCallable
    /\ \E t \in Ticks : sma' = push_tick(sma, t)
    /\ UNCHANGED smas
    /\ SmaFrame

SmaNext == SmaPush \/ SmaPushTick

\* most SMAs the list is given
MaxSmas == 2

\* struct SMAList: SMAList::new(), with the last call made on the list, its
\* argument, and how it ended ("panic" when a member's push panicked)
SMAList ==
    [smas |-> <<>>, call |-> "new", period |-> 0, tick |-> NullTick,
     status |-> "ok"]

\* pub fn add(&mut self, period: usize)
add(l, period) ==
    [l EXCEPT !.smas = Append(@, SimpleMovingAverage(period)),
              !.call = "add", !.period = period, !.tick = NullTick]

\* the index remove() stops at: the first member with the period, 0 if none
FirstWithPeriod(members, period) ==
    IF \E i \in 1..Len(members) : members[i].period = period
    THEN CHOOSE i \in 1..Len(members) :
             /\ members[i].period = period
             /\ \A j \in 1..(i - 1) : members[j].period # period
    ELSE 0

\* pub fn remove(&mut self, period: usize): Vec::remove(i) of the first match,
\* a printed line when there is none
remove(l, period) ==
    LET i == FirstWithPeriod(l.smas, period)
    IN  [l EXCEPT !.smas = IF i = 0
                           THEN @
                           ELSE SubSeq(@, 1, i - 1) \o SubSeq(@, i + 1, Len(@)),
                  !.call = "remove", !.period = period, !.tick = NullTick]

\* the loop of push_all from member i on: each member is pushed the tick in
\* turn; a push that panics ends the loop and the members after it are not fed
RECURSIVE PushFrom(_, _, _)
PushFrom(members, i, t) ==
    IF i > Len(members)
    THEN [smas |-> members, panicked |-> FALSE]
    ELSE LET fed == push(members[i], t)
         IN  IF fed.status # "ok"
             THEN [smas |-> [members EXCEPT ![i] = fed], panicked |-> TRUE]
             ELSE PushFrom([members EXCEPT ![i] = fed], i + 1, t)

\* pub fn push_all(&mut self, t: Tick)
push_all(l, t) ==
    LET r == PushFrom(l.smas, 1, t)
    IN  [l EXCEPT !.smas = r.smas,
                  !.call = "push_all", !.period = 0, !.tick = t,
                  !.status = IF r.panicked THEN "panic" ELSE "ok"]

\* a step on the list leaves the other components alone
SmaListFrame == UNCHANGED <<exitVars, supVars, btVars, sma, codec, lk>>

\* Command::AddSMA{period}
SmaListAdd ==
    /\ smas.status = "ok"
    /\ Len(smas.smas) < MaxSmas
    /\ \E period \in 1..MaxPeriod : smas' = add(smas, period)
    /\ SmaListFrame

\* Command::RemoveSMA{period}
SmaListRemove ==
    /\ smas.status = "ok"
    /\ \E period \in 1..MaxPeriod : smas' = remove(smas, period)
    /\ SmaListFrame

\* a tick arrives and is fanned out to the members
SmaListPushAll ==
    /\ smas.status = "ok"
    /\ \A i \in 1..Len(smas.smas) : Len(smas.smas[i].hist) < MaxPushes
    /\ \E t \in Ticks : smas' = push_all(smas, t)
    /\ SmaListFrame

SmaListNext == SmaListAdd \/ SmaListRemove \/ SmaListPushAll

-----------------------------------------------------------------------------
(* The codec of commands and responses (commands.rs)                        *)

\* most strings of a Pong's args
MaxArgs == 2

\* a text is a sequence of tokens: a punctuation mark, a string literal (the
\* characters between its quotes, escapes included) or a number literal (its
\* digits).  A variant or field name is one piece of a string literal
Punct(c)       == [p |-> c]
StrLit(chars)  == [str |-> chars]
NumLit(digits) == [num |-> digits]

IsStrLit(tok) == DOMAIN tok = {"str"}
IsNumLit(tok) == DOMAIN tok = {"num"}

\* the values of the fields: String, usize, Uuid, Vec<String>; a value of an
\* enum names its variant and holds the values of its fields in their order
Str(chars)   == [chars |-> chars]
Usize(n)     == [n |-> n]
UuidVal(u)   == [uuid |-> u]
VecStr(strs) == [items |-> strs]
Variant(enum, name, fields) == [enum |-> enum, variant |-> name, fields |-> fields]

\* struct WrappedCommand {uuid, cmd}, struct WrappedResponse {uuid, res}
Wrapped(key, u, inner) == [key |-> key, uuid |-> u, inner |-> inner]

\* a field of a variant and its type
Field(name, type) == [name |-> name, type |-> type]

\* a variant of an enum and its fields
VariantDef(name, fields) == [name |-> name, fields |-> fields]

UuidField == <<Field("uuid", "Uuid")>>

DownloadFields ==
    <<Field("start_time", "String"), Field("end_time", "String"),
      Field("symbol", "String"), Field("dst", "HistTickDst")>>

\* enum Command, enum Response, enum HistTickDst.  SpawnSimbroker{settings}
\* is left out: its SimBrokerSettings is defined outside these sources
Variants(enum) ==
    CASE enum = "Command" ->
           <<VariantDef("Ping", <<>>),
             VariantDef("Shutdown", <<>>),
             VariantDef("Kill", <<>>),
             VariantDef("Register", <<Field("channel", "String")>>),
             VariantDef("Type", <<>>),
             VariantDef("Ready", <<Field("instance_type", "String"),
                                   Field("uuid", "Uuid")>>),
             VariantDef("AddSMA", <<Field("period", "usize")>>),
             VariantDef("RemoveSMA", <<Field("period", "usize")>>),
             VariantDef("SpawnMM", <<>>),
             VariantDef("Census", <<>>),
             VariantDef("SpawnOptimizer", <<Field("strategy", "String")>>),
             VariantDef("SpawnTickParser", <<Field("symbol", "String")>>),
             VariantDef("SpawnBacktester", <<>>),
             VariantDef("SpawnFxcmDataDownloader", <<>>),
             VariantDef("KillInstance", UuidField),
             VariantDef("KillAllInstances", <<>>),
             VariantDef("StartBacktest", <<Field("definition", "String")>>),
             VariantDef("PauseBacktest", UuidField),
             VariantDef("ResumeBacktest", UuidField),
             VariantDef("StopBacktest", UuidField),
             VariantDef("ListBacktests", <<>>),
             VariantDef("ListSimbrokers", <<>>),
             VariantDef("DownloadTicks", DownloadFields),
             VariantDef("ListRunningDownloads", <<>>),
             VariantDef("DownloadComplete", DownloadFields)>>
      [] enum = "Response" ->
           <<VariantDef("Ok", <<>>),
             VariantDef("Error", <<Field("status", "String")>>),
             VariantDef("Pong", <<Field("args", "VecString")>>),
             VariantDef("Info", <<Field("info", "String")>>)>>
      [] enum = "HistTickDst" ->
           <<VariantDef("Flatfile", <<Field("filename", "String")>>),
             VariantDef("Postgres", <<Field("table", "String")>>),
             VariantDef("RedisChannel", <<Field("host", "String"),
                                          Field("channel", "String")>>),
             VariantDef("RedisSet", <<Field("host", "String"),
                                      Field("set_name", "String")>>),
             VariantDef("Console", <<>>)>>

\* the types that are enums
Enums == {"Command", "Response", "HistTickDst"}

VariantNames(enum) == {Variants(enum)[k].name : k \in 1..Len(Variants(enum))}

\* the fields of a variant of an enum
FieldsOf(enum, name) ==
    LET k == CHOOSE k \in 1..Len(Variants(enum)) : Variants(enum)[k].name = name
    IN  Variants(enum)[k].fields

DigitChars == <<"0", "1", "2", "3", "4", "5", "6", "7", "8", "9">>

\* the decimal digits of a usize
RECURSIVE Digits(_)
Digits(n) ==
    IF n < 10
    THEN <<DigitChars[n + 1]>>
    ELSE Digits(n \div 10) \o <<DigitChars[(n % 10) + 1]>>

\* the number a digit stands for, -1 for another character
DigitValue(c) ==
    IF \E d \in 1..10 : DigitChars[d] = c
    THEN (CHOOSE d \in 1..10 : DigitChars[d] = c) - 1
    ELSE -1

\* the number a number literal stands for, -1 if it is none: no digits, a
\* character that is no digit, or a leading zero
RECURSIVE DigitsValue(_, _)
DigitsValue(digits, acc) ==
    IF digits = <<>>
    THEN acc
    ELSE IF DigitValue(Head(digits)) < 0
    THEN -1
    ELSE DigitsValue(Tail(digits), 10 * acc + DigitValue(Head(digits)))

ParseDigits(digits) ==
    IF digits = <<>> \/ (Len(digits) > 1 /\ Head(digits) = "0")
    THEN -1
    ELSE DigitsValue(digits, 0)

\* a string literal that leaves the quote and the backslash as they are
RECURSIVE Escape_plain(_)
Escape_plain(chars) ==
    IF chars = <<>> THEN <<>> ELSE <<Head(chars)>> \o Escape_plain(Tail(chars))

\* the characters of a string literal: a quote and a backslash are escaped
RECURSIVE Escape(_)
Escape(chars) ==
    IF chars = <<>>
    THEN <<>>
    ELSE (IF Head(chars) \in {"\"", "\\"}
          THEN <<"\\", Head(chars)>>
          ELSE <<Head(chars)>>) \o Escape(Tail(chars))

\* the string a literal stands for; ok is FALSE for a bare quote or a
\* backslash that escapes neither a quote nor a backslash
RECURSIVE Unescape(_)
Unescape(chars) ==
    IF chars = <<>>
    THEN [ok |-> TRUE, chars |-> <<>>]
    ELSE IF Head(chars) = "\""
    THEN [ok |-> FALSE, chars |-> <<>>]
    ELSE IF Head(chars) = "\\"
    THEN IF Len(chars) >= 2 /\ chars[2] \in {"\"", "\\"}
         THEN LET rest == Unescape(Tail(Tail(chars)))
              IN  [ok |-> rest.ok, chars |-> <<chars[2]>> \o rest.chars]
         ELSE [ok |-> FALSE, chars |-> <<>>]
    ELSE LET rest == Unescape(Tail(chars))
         IN  [ok |-> rest.ok, chars |-> <<Head(chars)>> \o rest.chars]

\* the ids the codec is given
CodecUuids == {0, 1, 12}

\* Uuid::hyphenated as characters
HyphenatedChars(u) == <<"uuid-">> \o Digits(u)

\* the strings and the numbers the codec is given
CodecStrings == {<<>>, <<"a">>, <<"\\", "\"">>}
Numbers == {0, 7, 664}

\* the elements of a JSON array of strings, comma separated
RECURSIVE SerializeItems(_)
SerializeItems(strs) ==
    IF strs = <<>>
    THEN <<>>
    ELSE <<StrLit(Escape(Head(strs)))>>
         \o (IF Len(strs) > 1 THEN <<Punct(",")>> ELSE <<>>)
         \o SerializeItems(Tail(strs))

\* #[derive(Serialize)]: a unit variant is its name as a string, a variant
\* with fields an object whose one key is the name and whose value is the
\* object of the fields; a Uuid is its hyphenated string
RECURSIVE Serialize(_, _), SerializeFields(_, _)
Serialize(type, v) ==
    CASE type = "String"    -> <<StrLit(Escape(v.chars))>>
      [] type = "usize"     -> <<NumLit(Digits(v.n))>>
      [] type = "Uuid"      -> <<StrLit(Escape(HyphenatedChars(v.uuid)))>>
      [] type = "VecString" -> <<Punct("[")>> \o SerializeItems(v.items) \o <<Punct("]")>>
      [] type \in Enums ->
           IF FieldsOf(type, v.variant) = <<>>
           THEN <<StrLit(<<v.variant>>)>>
           ELSE <<Punct("{"), StrLit(<<v.variant>>), Punct(":"), Punct("{")>>
                \o SerializeFields(FieldsOf(type, v.variant), v.fields)
                \o <<Punct("}"), Punct("}")>>

SerializeFields(fields, vals) ==
    IF fields = <<>>
    THEN <<>>
    ELSE <<StrLit(<<Head(fields).name>>), Punct(":")>>
         \o Serialize(Head(fields).type, Head(vals))
         \o (IF Len(fields) > 1 THEN <<Punct(",")>> ELSE <<>>)
         \o SerializeFields(Tail(fields), Tail(vals))

\* #[derive(Serialize)] of WrappedCommand and WrappedResponse
SerializeWrapped(enum, w) ==
    <<Punct("{"), StrLit(<<"uuid">>), Punct(":")>>
    \o Serialize("Uuid", UuidVal(w.uuid))
    \o <<Punct(","), StrLit(<<w.key>>), Punct(":")>>
    \o Serialize(enum, w.inner)
    \o <<Punct("}")>>

\* a result of the parser: the value read and the tokens after it
Parsed(v, rest) == [ok |-> TRUE, val |-> v, rest |-> rest]
ParseError      == [ok |-> FALSE, val |-> <<>>, rest |-> <<>>]

\* the next token is the punctuation mark c
AtPunct(text, c) == text # <<>> /\ Head(text) = Punct(c)

\* the next token is the string literal of the name
AtName(text, name) == text # <<>> /\ Head(text) = StrLit(<<name>>)

\* the elements of a JSON array of strings up to its closing bracket
RECURSIVE DeserializeItems(_, _)
DeserializeItems(text, strs) ==
    IF text = <<>> \/ ~IsStrLit(Head(text)) \/ ~Unescape(Head(text).str).ok
    THEN ParseError
    ELSE LET got == Append(strs, Unescape(Head(text).str).chars)
         IN  IF AtPunct(Tail(text), "]")
             THEN Parsed(VecStr(got), Tail(Tail(text)))
             ELSE IF AtPunct(Tail(text), ",")
             THEN DeserializeItems(Tail(Tail(text)), got)
             ELSE ParseError

\* #[derive(Deserialize)]: reads a value of the type from the front of the
\* text; a name that is no variant of the enum, a missing or a foreign field
\* is an error
RECURSIVE Deserialize(_, _), DeserializeFields(_, _, _)
Deserialize(type, text) ==
    IF text = <<>>
    THEN ParseError
    ELSE CASE type = "String" ->
                IF IsStrLit(Head(text)) /\ Unescape(Head(text).str).ok
                THEN Parsed(Str(Unescape(Head(text).str).chars), Tail(text))
                ELSE ParseError
           [] type = "usize" ->
                IF IsNumLit(Head(text)) /\ ParseDigits(Head(text).num) >= 0
                THEN Parsed(Usize(ParseDigits(Head(text).num)), Tail(text))
                ELSE ParseError
           [] type = "Uuid" ->
                IF /\ IsStrLit(Head(text))
                   /\ Unescape(Head(text).str).ok
                   /\ \E u \in CodecUuids :
                          HyphenatedChars(u) = Unescape(Head(text).str).chars
                THEN Parsed(UuidVal(CHOOSE u \in CodecUuids :
                                HyphenatedChars(u) = Unescape(Head(text).str).chars),
                            Tail(text))
                ELSE ParseError
           [] type = "VecString" ->
                IF ~AtPunct(text, "[")
                THEN ParseError
                ELSE IF AtPunct(Tail(text), "]")
                THEN Parsed(VecStr(<<>>), Tail(Tail(text)))
                ELSE DeserializeItems(Tail(text), <<>>)
           [] type \in Enums ->
                IF \E name \in VariantNames(type) :
                       AtName(text, name) /\ FieldsOf(type, name) = <<>>
                THEN Parsed(Variant(type, Head(text).str[1], <<>>), Tail(text))
                ELSE IF /\ Len(text) >= 4
                        /\ AtPunct(text, "{")
                        /\ \E name \in VariantNames(type) :
                               text[2] = StrLit(<<name>>) /\ FieldsOf(type, name) # <<>>
                        /\ text[3] = Punct(":")
                        /\ text[4] = Punct("{")
                THEN LET name == text[2].str[1]
                         body == DeserializeFields(FieldsOf(type, name),
                                                   SubSeq(text, 5, Len(text)), <<>>)
                     IN  IF body.ok /\ AtPunct(body.rest, "}")
                                    /\ AtPunct(Tail(body.rest), "}")
                         THEN Parsed(Variant(type, name, body.val),
                                     Tail(Tail(body.rest)))
                         ELSE ParseError
                ELSE ParseError

DeserializeFields(fields, text, vals) ==
    IF fields = <<>>
    THEN Parsed(vals, text)
    ELSE IF ~(AtName(text, Head(fields).name) /\ AtPunct(Tail(text), ":"))
    THEN ParseError
    ELSE LET field == Deserialize(Head(fields).type, Tail(Tail(text)))
         IN  IF ~field.ok
             THEN ParseError
             ELSE IF Len(fields) = 1
             THEN Parsed(Append(vals, field.val), field.rest)
             ELSE IF AtPunct(field.rest, ",")
             THEN DeserializeFields(Tail(fields), Tail(field.rest),
                                    Append(vals, field.val))
             ELSE ParseError

\* #[derive(Deserialize)] of WrappedCommand and WrappedResponse
DeserializeWrapped(enum, key, text) ==
    IF ~(AtPunct(text, "{") /\ AtName(Tail(text), "uuid")
                            /\ AtPunct(Tail(Tail(text)), ":"))
    THEN ParseError
    ELSE LET id == Deserialize("Uuid", SubSeq(text, 4, Len(text)))
         IN  IF ~(id.ok /\ AtPunct(id.rest, ",") /\ AtName(Tail(id.rest), key)
                        /\ AtPunct(Tail(Tail(id.rest)), ":"))
             THEN ParseError
             ELSE LET inner == Deserialize(enum, SubSeq(id.rest, 4, Len(id.rest)))
                  IN  IF inner.ok /\ AtPunct(inner.rest, "}")
                      THEN Parsed(Wrapped(key, id.val.uuid, inner.val),
                                  Tail(inner.rest))
                      ELSE ParseError

\* the four types with a to_string and a from_str, and the enum inside
Codecs == {"Command", "Response", "WrappedCommand", "WrappedResponse"}

InnerEnum(type) == IF type \in {"Command", "WrappedCommand"} THEN "Command" ELSE "Response"
WrapKey(type)   == IF type = "WrappedCommand" THEN "cmd" ELSE "res"

\* to_string of Command, Response, WrappedCommand, WrappedResponse
to_string(type, v) ==
    IF type \in {"Command", "Response"}
    THEN Serialize(type, v)
    ELSE SerializeWrapped(InnerEnum(type), v)

\* from_str of Command, Response, WrappedCommand, WrappedResponse: Err(())
\* for a text that does not parse or goes on after the value
from_str(type, text) ==
    LET r == IF type \in {"Command", "Response"}
             THEN Deserialize(type, text)
             ELSE DeserializeWrapped(InnerEnum(type), WrapKey(type), text)
    IN  IF r.ok /\ r.rest = <<>> THEN Parsed(r.val, <<>>) ELSE ParseError

\* the vectors of at most n of the strings
RECURSIVE StringVecs(_)
StringVecs(n) ==
    IF n = 0
    THEN {<<>>}
    ELSE StringVecs(n - 1)
         \cup {Append(strs, s) : strs \in StringVecs(n - 1), s \in CodecStrings}

\* the values of a type, and the tuples of values of the fields of a variant
RECURSIVE ValuesOf(_), FieldTuples(_)
ValuesOf(type) ==
    CASE type = "String"    -> {Str(s) : s \in CodecStrings}
      [] type = "usize"     -> {Usize(n) : n \in Numbers}
      [] type = "Uuid"      -> {UuidVal(u) : u \in CodecUuids}
      [] type = "VecString" -> {VecStr(strs) : strs \in StringVecs(MaxArgs)}
      [] type \in Enums ->
           UNION {{Variant(type, Variants(type)[k].name, fs) :
                      fs \in FieldTuples(Variants(type)[k].fields)} :
                  k \in 1..Len(Variants(type))}

FieldTuples(fields) ==
    IF fields = <<>>
    THEN {<<>>}
    ELSE {<<v>> \o rest : v \in ValuesOf(Head(fields).type),
                          rest \in FieldTuples(Tail(fields))}

\* the values of the four types
CodecValues(type) ==
    IF type \in {"Command", "Response"}
    THEN ValuesOf(type)
    ELSE {Wrapped(WrapKey(type), u, inner) :
             u \in CodecUuids, inner \in ValuesOf(InnerEnum(type))}

\* a value of one of the four types, before it is encoded
ToEncode(type, v) ==
    [pc |-> "value", type |-> type, v |-> v, text |-> <<>>, back |-> ParseError]

\* a step of the codec leaves the other components alone
CodecFrame == UNCHANGED <<exitVars, supVars, btVars, smaVars, lk>>

\* the sender encodes the value
ToString ==
    /\ codec.pc = "value"
    /\ codec' = [codec EXCEPT !.pc = "encoded",
                              !.text = to_string(codec.type, codec.v)]
    /\ CodecFrame

\* the receiver decodes the text
FromStr ==
    /\ codec.pc = "encoded"
    /\ codec' = [codec EXCEPT !.pc = "decoded",
                              !.back = from_str(codec.type, codec.text)]
    /\ CodecFrame

CodecNext == ToString \/ FromStr

-----------------------------------------------------------------------------
(* The guards of the shared maps: living, running_backtests, simbrokers     *)

\* a step of a thread: taking or dropping the guard of a map, work on the map,
\* a publish on the transport, the wait for a response, or a send on the
\* bounded channel of a running backtest
Step(kind, map) == [kind |-> kind, map |-> map]

Lock(map)   == Step("lock", map)
Unlock(map) == Step("unlock", map)
Work        == Step("work", "none")
Publish     == Step("publish", "none")
Await       == Step("await", "none")
Send        == Step("send", "none")

\* a critical section on a map that does nothing but work on it
Guarded(map) == <<Lock(map), Work, Unlock(map)>>

\* n times the step
RECURSIVE Times(_, _)
Times(n, step) == IF n = 0 THEN <<>> ELSE <<step>> \o Times(n - 1, step)

\* kill_all with n living instances: the guard of living lives to the end of
\* the function, and execute() publishes a Kill for each instance drained
kill_all_steps(n) == <<Lock("living")>> \o Times(n, Publish) \o <<Unlock("living")>>

\* send_backtest_cmd: the guard of running_backtests lives to the end of the
\* function; without a handle it returns before the send
send_backtest_cmd_steps(found) ==
    <<Lock("running_backtests"), Work>>
    \o (IF found THEN <<Send>> ELSE <<>>)
    \o <<Unlock("running_backtests")>>

\* start_backtest: with a SimBroker destination the stream is registered under
\* the guard of simbrokers; the handle is inserted under running_backtests
start_backtest_steps(to_simbroker) ==
    (IF to_simbroker THEN Guarded("simbrokers") ELSE <<>>)
    \o Guarded("running_backtests")

\* the spawner's listener: what handling one command does, then the publish
\* of its response
ListenerSteps ==
    {<<Publish>>,                                          \* Ping, Type, Kill, SpawnX
     Guarded("living") \o <<Publish>>}                     \* Ready, Census
    \cup {kill_all_steps(n) \o <<Publish>> : n \in 0..MaxLiving}

\* the thread of init(): registering itself, and one round of the heartbeat:
\* ping_all().wait(), get_missing_instance, and for a missing instance
\* remove_instance, the Type query and add_instance when it answers
HeartbeatSteps ==
    {Guarded("living"),
     <<Publish, Await>> \o Guarded("living"),
     <<Publish, Await>> \o Guarded("living") \o Guarded("living") \o <<Publish, Await>>,
     <<Publish, Await>> \o Guarded("living") \o Guarded("living") \o <<Publish, Await>>
         \o Guarded("living")}

\* the backtester's listener: what handling one command does, then the
\* publish of its response
BacktesterSteps ==
    {<<Publish>>,                                                    \* Ping, Type, Kill
     Guarded("running_backtests") \o <<Publish>>,                    \* ListBacktests
     Guarded("simbrokers") \o <<Publish>>,                           \* SpawnSimbroker, ListSimbrokers
     start_backtest_steps(TRUE) \o <<Publish>>,
     send_backtest_cmd_steps(FALSE) \o <<Publish>>,
     send_backtest_cmd_steps(TRUE) \o <<Publish>>,                   \* Pause, Resume
     send_backtest_cmd_steps(TRUE) \o Guarded("running_backtests") \o <<Publish>>}  \* Stop

Threads == {"listener", "heartbeat", "backtester"}

StepsOf(thread) ==
    CASE thread = "listener"   -> ListenerSteps
      [] thread = "heartbeat"  -> HeartbeatSteps
      [] thread = "backtester" -> BacktesterSteps

\* the maps behind a Mutex
Maps == {"living", "running_backtests", "simbrokers"}

\* every lock free, every thread between two operations, the channel empty
Unlocked ==
    [holder |-> [map \in Maps |-> "none"],
     steps  |-> [thread \in Threads |-> <<>>],
     chan   |-> 0]

\* a step of this view leaves the other components alone
LockFrame == UNCHANGED <<exitVars, supVars, btVars, smaVars, codec>>

\* the step the thread is at
AtStep(thread, kind) == lk.steps[thread] # <<>> /\ Head(lk.steps[thread]).kind = kind

\* the thread has done the step it was at
Stepped(thread) == [lk EXCEPT !.steps[thread] = Tail(@)]

\* a thread takes up its next operation
LkBegin ==
    /\ \E thread \in Threads :
          /\ lk.steps[thread] = <<>>
          /\ \E steps \in StepsOf(thread) : lk' = [lk EXCEPT !.steps[thread] = steps]
    /\ LockFrame

\* Mutex::lock: waits while another thread holds the guard
LkLock ==
    /\ \E thread \in Threads :
          /\ AtStep(thread, "lock")
          /\ lk.holder[Head(lk.steps[thread]).map] = "none"
          /\ lk' = [Stepped(thread) EXCEPT !.holder[Head(lk.steps[thread]).map] = thread]
    /\ LockFrame

\* the guard goes out of scope
LkUnlock ==
    /\ \E thread \in Threads :
          /\ AtStep(thread, "unlock")
          /\ lk' = [Stepped(thread) EXCEPT !.holder[Head(lk.steps[thread]).map] = "none"]
    /\ LockFrame

\* reading or changing the map
LkWork ==
    /\ \E thread \in Threads : AtStep(thread, "work") /\ lk' = Stepped(thread)
    /\ LockFrame

\* the publish on the transport returns
LkPublish ==
    /\ \E thread \in Threads : AtStep(thread, "publish") /\ lk' = Stepped(thread)
    /\ LockFrame

\* the response, or the timeout, arrives
LkAwait ==
    /\ \E thread \in Threads : AtStep(thread, "await") /\ lk' = Stepped(thread)
    /\ LockFrame

\* SyncSender::send: blocks while the channel holds ChanCap commands
LkSend ==
    /\ \E thread \in Threads :
          /\ AtStep(thread, "send")
          /\ lk.chan < ChanCap
          /\ lk' = [Stepped(thread) EXCEPT !.chan = @ + 1]
    /\ LockFrame

\* the worker of the backtest takes a command from the channel
LkRecv ==
    /\ lk.chan > 0
    /\ lk' = [lk EXCEPT !.chan = @ - 1]
    /\ LockFrame

LockNext ==
    \/ LkBegin \/ LkLock \/ LkUnlock \/ LkWork
    \/ LkPublish \/ LkAwait \/ LkSend \/ LkRecv

-----------------------------------------------------------------------------
(* The two listeners side by side: the spawner and the backtester are       *)
(* processes of their own that share no state, so a run is told by the      *)
(* process that takes its first step, and the other one stays as it began   *)

\* uuids a SimBroker destination can name: those init_simbroker hands out, and
\* one more that it never does
SimUuids == 1..(MaxSimbrokers + 1)

\* variants listen() has no arm for (spawner, tick parser, ...)
BtForeignNames == {"Census", "Ready", "AddSMA"}

\* commands whose arm builds a reply from the state and changes nothing
MsgReplyNames == ReplyNames \cup {"ListSimbrokers"} \cup BtForeignNames

\* definitions the backtester is sent: plain sinks and SimBroker destinations
MsgDefs ==
    {Definition(None, None, "Random", Sink),
     Definition(Some(1), None, "Random", Sink),
     Definition(None, None, "Flatfile", Sink),
     Definition(None, None, "Missing", Sink),
     BadDefinition}
    \cup {Definition(None, None, "Random", SimBrokerDest(id)) : id \in SimUuids}

\* the spawner is as InstanceManager::new() left it
SupIdle == sup_pc = "bootstrap"

\* the backtester is as Backtester::new() left it
BtIdle ==
    /\ bt = <<>> /\ running_backtests = {} /\ simbrokers = {}
    /\ bt_listening /\ bt_exit = "no" /\ bt_last = BtNoLast

MsgBootstrap == BtIdle /\ Bootstrap
MsgStartListen == BtIdle /\ StartListen
MsgRegisterSelf == BtIdle /\ RegisterSelf
MsgSupListen == BtIdle /\ \E uuid \in CorrUuids : SupHandle(uuid)
MsgSupMalformed == BtIdle /\ SupMalformed
MsgSupExit == BtIdle /\ SupExit

MsgListenStart ==
    SupIdle /\ \E def \in MsgDefs, uuid \in CorrUuids : ListenStart(def, uuid, 1)
MsgListenControl ==
    SupIdle /\ \E name \in ControlNames, target \in BtUuids, uuid \in CorrUuids :
                  ListenControl(name, target, uuid)
MsgListenReply ==
    SupIdle /\ \E name \in MsgReplyNames, uuid \in CorrUuids : ListenReply(name, uuid)
MsgListenSpawnSimbroker == SupIdle /\ \E uuid \in CorrUuids : ListenSpawnSimbroker(uuid)
MsgListenKill == SupIdle /\ \E uuid \in CorrUuids : ListenKill(uuid)
MsgBtMalformed == SupIdle /\ BtMalformed
MsgBtExit == SupIdle /\ BtExit
MsgEngineTake == SupIdle /\ BtEngineTake
MsgTick == SupIdle /\ BtTick
MsgWorkerStop == SupIdle /\ BtWorkerStop
MsgStreamEnd == SupIdle /\ BtStreamEnd

MsgNext ==
    \/ MsgBootstrap \/ MsgStartListen \/ MsgRegisterSelf
    \/ MsgSupListen \/ MsgSupMalformed \/ MsgSupExit
    \/ MsgListenStart \/ MsgListenControl \/ MsgListenReply
    \/ MsgListenSpawnSimbroker \/ MsgListenKill \/ MsgBtMalformed \/ MsgBtExit
    \/ MsgEngineTake \/ MsgTick \/ MsgWorkerStop \/ MsgStreamEnd

-----------------------------------------------------------------------------
(* Specifications                                                           *)

ExitNext == CallCheckEarlyExit

InitExit ==
    /\ ce_def \in [max_tick_n : OptLimit, max_timestamp : OptLimit]
    /\ ce_ts \in 0..(MaxLimit + 1)
    /\ ce_i \in 0..(MaxLimit + 1)
    /\ ce_called = FALSE
    /\ ce_out = FALSE
    /\ living = <<>>
    /\ sup_pc = "bootstrap"
    /\ sup_listening = FALSE
    /\ dead_instance = NoInstance
    /\ type_res = TypeNone
    /\ kills = <<>>
    /\ sup_exit = "no"
    /\ sup_last = NoLast
    /\ stragglers = <<>>
    /\ launched = NoLaunch
    /\ running_backtests = {}
    /\ bt = <<>>
    /\ bt_listening = TRUE
    /\ bt_last = BtNoLast
    /\ simbrokers = {}
    /\ bt_exit = "no"
    /\ sma = Absent
    /\ smas = Absent
    /\ codec = Absent
    /\ lk = Absent

\* the state after InstanceManager::new() and Backtester::new()
InitAll ==
    /\ ce_def = [max_tick_n |-> None, max_timestamp |-> None]
    /\ ce_ts = 0
    /\ ce_i = 0
    /\ ce_called = FALSE
    /\ ce_out = FALSE
    /\ living = <<>>
    /\ sup_pc = "bootstrap"
    /\ sup_listening = FALSE
    /\ dead_instance = NoInstance
    /\ type_res = TypeNone
    /\ kills = <<>>
    /\ sup_exit = "no"
    /\ sup_last = NoLast
    /\ stragglers = <<>>
    /\ launched = NoLaunch
    /\ running_backtests = {}
    /\ bt = <<>>
    /\ bt_listening = TRUE
    /\ bt_last = BtNoLast
    /\ simbrokers = {}
    /\ bt_exit = "no"
    /\ sma = Absent
    /\ smas = Absent
    /\ codec = Absent
    /\ lk = Absent

SpecExit == InitExit /\ [][ExitNext]_vars

SpecSup == InitAll /\ [][SupNext]_vars

SpecBt == InitAll /\ [][BtNext]_vars

SpecRun == InitAll /\ [][RunNext]_vars

SpecMsg == InitAll /\ [][MsgNext]_vars

\* a fresh SMA of any period, before its first push
InitSma ==
    /\ ce_def = [max_tick_n |-> None, max_timestamp |-> None]
    /\ ce_ts = 0
    /\ ce_i = 0
    /\ ce_called = FALSE
    /\ ce_out = FALSE
    /\ living = <<>>
    /\ sup_pc = "bootstrap"
    /\ sup_listening = FALSE
    /\ dead_instance = NoInstance
    /\ type_res = TypeNone
    /\ kills = <<>>
    /\ sup_exit = "no"
    /\ sup_last = NoLast
    /\ stragglers = <<>>
    /\ launched = NoLaunch
    /\ running_backtests = {}
    /\ bt = <<>>
    /\ bt_listening = TRUE
    /\ bt_last = BtNoLast
    /\ simbrokers = {}
    /\ bt_exit = "no"
    /\ sma \in {SimpleMovingAverage(period) : period \in 0..MaxPeriod}
    /\ smas = Absent
    /\ codec = Absent
    /\ lk = Absent

SpecSma == InitSma /\ [][SmaNext]_vars

\* an empty SMAList
InitSmaList ==
    /\ ce_def = [max_tick_n |-> None, max_timestamp |-> None]
    /\ ce_ts = 0
    /\ ce_i = 0
    /\ ce_called = FALSE
    /\ ce_out = FALSE
    /\ living = <<>>
    /\ sup_pc = "bootstrap"
    /\ sup_listening = FALSE
    /\ dead_instance = NoInstance
    /\ type_res = TypeNone
    /\ kills = <<>>
    /\ sup_exit = "no"
    /\ sup_last = NoLast
    /\ stragglers = <<>>
    /\ launched = NoLaunch
    /\ running_backtests = {}
    /\ bt = <<>>
    /\ bt_listening = TRUE
    /\ bt_last = BtNoLast
    /\ simbrokers = {}
    /\ bt_exit = "no"
    /\ sma = Absent
    /\ smas = SMAList
    /\ codec = Absent
    /\ lk = Absent

SpecSmaList == InitSmaList /\ [][SmaListNext]_vars

\* a value of one of the four types, about to be sent
InitCodec ==
    /\ ce_def = [max_tick_n |-> None, max_timestamp |-> None]
    /\ ce_ts = 0
    /\ ce_i = 0
    /\ ce_called = FALSE
    /\ ce_out = FALSE
    /\ living = <<>>
    /\ sup_pc = "bootstrap"
    /\ sup_listening = FALSE
    /\ dead_instance = NoInstance
    /\ type_res = TypeNone
    /\ kills = <<>>
    /\ sup_exit = "no"
    /\ sup_last = NoLast
    /\ stragglers = <<>>
    /\ launched = NoLaunch
    /\ running_backtests = {}
    /\ bt = <<>>
    /\ bt_listening = TRUE
    /\ bt_last = BtNoLast
    /\ simbrokers = {}
    /\ bt_exit = "no"
    /\ sma = Absent
    /\ smas = Absent
    /\ codec \in UNION {{ToEncode(type, v) : v \in CodecValues(type)} : type \in Codecs}
    /\ lk = Absent

SpecCodec == InitCodec /\ [][CodecNext]_vars

\* every guard free and every thread between two operations
InitLock ==
    /\ ce_def = [max_tick_n |-> None, max_timestamp |-> None]
    /\ ce_ts = 0
    /\ ce_i = 0
    /\ ce_called = FALSE
    /\ ce_out = FALSE
    /\ living = <<>>
    /\ sup_pc = "bootstrap"
    /\ sup_listening = FALSE
    /\ dead_instance = NoInstance
    /\ type_res = TypeNone
    /\ kills = <<>>
    /\ sup_exit = "no"
    /\ sup_last = NoLast
    /\ stragglers = <<>>
    /\ launched = NoLaunch
    /\ running_backtests = {}
    /\ bt = <<>>
    /\ bt_listening = TRUE
    /\ bt_last = BtNoLast
    /\ simbrokers = {}
    /\ bt_exit = "no"
    /\ sma = Absent
    /\ smas = Absent
    /\ codec = Absent
    /\ lk = Unlocked

SpecLock == InitLock /\ [][LockNext]_vars
-----------------------------------------------------------------------------
(* The heartbeat's second probe                                             *)

\* the Type query resolved with an Info reply
TypeSucceeded(outcome) == outcome.kind = "Ok" /\ outcome.res.tag = "Info"

\* the step that ends a heartbeat round in which a Pong was missing: the
\* match on the Type query's result
RoundEnds == sup_pc = "query" /\ sup_pc' = "sleep"

\* a step of the heartbeat loop
HeartbeatStep == sup_pc \in {"ping", "remove", "query", "sleep"} /\ sup_pc' # sup_pc

\* C1: a missed Pong alone drops no instance and sends no Kill: in every
\* heartbeat round, the instance whose Pong was missing ends the round absent
\* from the living list only if its Type query failed (it resolved with no
\* Info reply); no step of the heartbeat takes any other instance off the
\* list, and none sends a Kill
C1_MissedPongAloneDropsNothing ==
    [][/\ RoundEnds =>
             (dead_instance.uuid \notin Uuids(living') => ~TypeSucceeded(type_res'))
       /\ HeartbeatStep =>
             /\ \A u \in Uuids(living) :
                    u \notin Uuids(living') => u = dead_instance.uuid
             /\ kills' = <<>>]_vars

\* a round has ended with the missing instance's query timed out and the
\* instance gone from the living list
C1_Witness ==
    /\ sup_pc = "sleep"
    /\ dead_instance.instance_type # "none"
    /\ dead_instance.uuid \in InstUuids
    /\ type_res.kind = "Err"
    /\ dead_instance.uuid \notin Uuids(living)

\* C2: when the Type query of a round resolves with Info(kind), the living
\* list holds a record of the missing instance's id with that kind at the end
\* of the round; when the query fails, no record with that id is left in it
C2_TypeQueryDecidesMembership ==
    [][RoundEnds =>
         /\ TypeSucceeded(type_res') =>
                \E k \in 1..Len(living') :
                    /\ living'[k].uuid = dead_instance.uuid
                    /\ living'[k].instance_type = type_res'.res.val[1]
         /\ type_res'.kind = "Err" => dead_instance.uuid \notin Uuids(living')]_vars

-----------------------------------------------------------------------------
(* The handle map and the engines                                           *)

\* a Stop is waiting in the control channel of backtest b
StopPending(b) == \E k \in 1..Len(bt[b].chan) : bt[b].chan[k] = "Stop"

\* C3: in every reachable state a handle for a backtest is in the
\* running_backtests map if and only if that backtest's engine is running or
\* paused; an engine that has a Stop waiting in its channel counts as stopped
\* already, so no handle is present once the engine has stopped, be it by
\* StopBacktest, by the exit predicate or by the end of the stream
C3_HandleIffEngineAlive ==
    \A b \in 1..Len(bt) :
        (b \in running_backtests) <=> (Alive(b) /\ ~StopPending(b))

\* the ticks of a source that yields at least n of them
YieldsAtLeast(def, n) == def.data_source = "Random" \/ FlatfileTicks >= n

\* C4: a backtest started with max_tick_n = n and no max_timestamp, on a
\* source that yields at least n ticks, delivers exactly n ticks: never more
\* than n, and n once its worker has left the loop
C4_MaxTickNDeliversExactlyN ==
    \A b \in 1..Len(bt) :
        LET def == bt[b].def
        IN  (def.max_tick_n.some /\ ~def.max_timestamp.some
                /\ YieldsAtLeast(def, def.max_tick_n.val)) =>
                /\ bt[b].i <= def.max_tick_n.val
                /\ bt[b].worker # "active" => bt[b].i = def.max_tick_n.val

\* C5: a backtest started with max_timestamp = m and no max_tick_n, on a
\* source whose ticks carry the timestamps 1, 2, 3, ..., delivers exactly m
\* ticks: never more than m, and m once its worker has left the loop, the
\* last of them being the first whose timestamp is >= m
C5_MaxTimestampDeliversExactlyM ==
    \A b \in 1..Len(bt) :
        LET def == bt[b].def
        IN  (def.max_timestamp.some /\ ~def.max_tick_n.some
                /\ YieldsAtLeast(def, def.max_timestamp.val)) =>
                /\ bt[b].i <= def.max_timestamp.val
                /\ bt[b].worker # "active" =>
                       /\ bt[b].i = def.max_timestamp.val
                       /\ TickTimestamp(bt[b].i) >= def.max_timestamp.val
                       /\ \A k \in 1..(bt[b].i - 1) :
                              TickTimestamp(k) < def.max_timestamp.val

-----------------------------------------------------------------------------
(* The exit predicate                                                       *)

\* C6: check_early_exit(tick, definition, count) returns true if and only if
\* max_tick_n is set and count >= max_tick_n, or max_timestamp is set and
\* tick.timestamp >= max_timestamp
C6_CheckEarlyExitIff ==
    ce_called =>
        (ce_out <=>
            \/ ce_def.max_tick_n.some /\ ce_i >= ce_def.max_tick_n.val
            \/ ce_def.max_timestamp.some /\ ce_ts >= ce_def.max_timestamp.val)

\* the call returned true with both limits set and only the timestamp's reached
C6_Witness ==
    /\ ce_called /\ ce_out
    /\ ce_def.max_tick_n.some /\ ce_i < ce_def.max_tick_n.val
    /\ ce_def.max_timestamp.some /\ ce_ts >= ce_def.max_timestamp.val

-----------------------------------------------------------------------------
(* The life of one backtest                                                 *)

\* C7: a new backtest begins paused: until the listener has forwarded the
\* first Resume to it, no tick is delivered to its sink
C7_NoTickBeforeFirstResume ==
    \A b \in 1..Len(bt) : ~bt[b].resumed => bt[b].i = 0

\* a backtest is started, a Pause has just been forwarded to it, no Resume
\* yet, its worker waits and no tick was delivered
C7_Witness ==
    \E b \in 1..Len(bt) :
        /\ ~bt[b].resumed /\ bt[b].i = 0 /\ bt[b].worker = "active"
        /\ bt_last.cmd.name = "PauseBacktest" /\ bt_last.cmd.uuid = b
        /\ bt_last.sent = "Pause"

\* C8: Stopped is terminal: once the engine of a backtest has taken a Stop,
\* it stays stopped and no step delivers a further tick to its sink, whatever
\* Pause or Resume is forwarded to it afterwards
C8_StoppedIsTerminal ==
    [][\A b \in 1..Len(bt) :
          bt[b].stop_taken => (bt'[b].engine = "Stopped" /\ bt'[b].i = bt[b].i)]_vars

\* a backtest that delivered ticks and took a Stop has just been forwarded a
\* Resume
C8_Witness ==
    \E b \in 1..Len(bt) :
        /\ bt[b].stop_taken /\ bt[b].i > 0
        /\ bt_last.cmd.name = "ResumeBacktest" /\ bt_last.cmd.uuid = b
        /\ bt_last.sent = "Resume"

-----------------------------------------------------------------------------
(* PauseBacktest, ResumeBacktest, StopBacktest                              *)

\* the step handles a Pause/Resume/StopBacktest command
ControlHandled == bt_last'.cmd.name \in ControlNames

C10_ControlOfUnknownBacktest ==
    [][(ControlHandled /\ bt_last'.cmd.uuid \notin running_backtests) =>
          /\ bt_last'.published.res.tag = "Error"
          /\ bt_last'.sent = "none"
          /\ bt' = bt
          /\ running_backtests' = running_backtests]_vars

\* a control command naming an id without a handle has just been answered
\* with an Error while the engine of a started backtest lives
C10_Witness ==
    /\ bt_last.cmd.name \in ControlNames
    /\ bt_last.cmd.uuid \notin running_backtests
    /\ bt_last.published.res.tag = "Error"
    /\ \E b \in 1..Len(bt) : bt[b].engine \in {"Paused", "Running"}

-----------------------------------------------------------------------------
(* The spawner's commands                                                   *)

\* number of entries of a sequence of channels that name uuid u
KillsTo(ks, u) == Cardinality({k \in 1..Len(ks) : ks[k] = <<"uuid", u>>})

\* C17: each Ready(kind, id) the supervisor handles adds exactly one record
\* {kind, id} to the living list, removes nothing (the records it held stay
\* where they were) and is answered with Ok
C17_ReadyAddsOneRecord ==
    [][sup_last'.cmd.name = "Ready" =>
          /\ Len(living') = Len(living) + 1
          /\ \A k \in 1..Len(living) : living'[k] = living[k]
          /\ living'[Len(living')].instance_type = sup_last'.cmd.instance_type
          /\ living'[Len(living')].uuid = sup_last'.cmd.uuid
          /\ sup_last'.published.res.tag = "Ok"]_vars

\* a Ready has just been handled while the list held a record already
C17_Witness ==
    /\ sup_last.cmd.name = "Ready"
    /\ Len(living) = 2
    /\ living[2].uuid = sup_last.cmd.uuid
    /\ sup_last.published.res.tag = "Ok"

\* C18: handling KillAllInstances sends exactly one Kill to the id of each
\* instance that was in the living list when handling began (and none to any
\* other id), leaves the living list empty and replies Ok
C18_KillAllKillsEachOnce ==
    [][sup_last'.cmd.name = "KillAllInstances" =>
          /\ \A u \in AllUuids :
                 KillsTo(kills', u) = IF u \in Uuids(living) THEN 1 ELSE 0
          /\ Len(kills') = Cardinality(Uuids(living))
          /\ living' = <<>>
          /\ sup_last'.published.res.tag = "Ok"]_vars

\* the heartbeat loop is reached: init() has pushed the spawner's own record
Registered == sup_pc \in {"ping", "remove", "query", "sleep"}

\* C19: once the supervisor has registered itself, a record with its own id
\* is in the living list in every reachable state
C19_OwnRecordStays ==
    Registered => OwnUuid \in Uuids(living)

\* the responders of the startup Ping: the uuids its well-formed Pongs name
Responders(resps) ==
    {u \in AllUuids : \E k \in 1..Len(resps) :
        /\ resps[k].tag = "Pong"
        /\ Len(resps[k].val) >= 1
        /\ resps[k].val[1] = <<"uuid", u>>}

\* C20: the bootstrap issues exactly one Kill for every responder to the
\* startup Ping that is not in the supervisor's known set, addressed to that
\* responder's id, and no Kill to any other id, its own included
C20_OneKillPerStraggler ==
    sup_pc = "listen" =>
        /\ \A u \in AllUuids :
               KillsTo(kills, u) =
                   IF u \in Responders(stragglers) \ Uuids(living) THEN 1 ELSE 0
        /\ Len(kills) = Cardinality(Responders(stragglers) \ Uuids(living))

-----------------------------------------------------------------------------
(* The backtester's destinations and stream ends                            *)

\* the listener has just handled a StartBacktest whose definition parses, whose
\* stream opens, and whose destination is a simbroker the registry lacks
StartOnMissingSimbroker ==
    /\ bt_last'.cmd.name = "StartBacktest"
    /\ bt_last'.cmd.definition # BadDefinition
    /\ OpensStream(bt_last'.cmd.definition)
    /\ bt_last'.cmd.definition.data_dest.kind = "SimBroker"
    /\ bt_last'.cmd.definition.data_dest.uuid \notin simbrokers

\* C12: start_backtest with data_dest = SimBroker(id), id not in the simbroker
\* registry, is answered with Error; no handle is registered for the attempt
\* and the simbroker registry is unchanged
C12_UnknownSimbrokerIsRefused ==
    [][StartOnMissingSimbroker =>
          /\ bt_last'.published.res.tag = "Error"
          /\ running_backtests' = running_backtests
          /\ bt' = bt
          /\ simbrokers' = simbrokers]_vars

\* a StartBacktest for a simbroker that was never spawned has been refused
\* while another simbroker is in the registry
C12_Witness ==
    /\ bt_last.cmd.name = "StartBacktest"
    /\ bt_last.cmd.definition # BadDefinition
    /\ bt_last.cmd.definition.data_dest.kind = "SimBroker"
    /\ bt_last.cmd.definition.data_dest.uuid \notin simbrokers
    /\ simbrokers # {}
    /\ bt_last.published.res.tag = "Error"
    /\ running_backtests = {}

-----------------------------------------------------------------------------
(* Messages: correlation ids, messages that do not parse, foreign variants  *)

C15_MalformedIsIgnored ==
    [][/\ sup_last'.cmd.name = "malformed" =>
              /\ sup_last'.published.res.tag = "none"
              /\ UNCHANGED <<living, sup_pc, dead_instance, type_res, sup_exit>>
              /\ sup_listening'
       /\ bt_last'.cmd.name = "malformed" =>
              /\ bt_last'.published.res.tag = "none"
              /\ UNCHANGED <<running_backtests, bt, simbrokers, bt_exit>>
              /\ bt_listening']_vars

\* C16: a well-formed command whose variant is not in the recipient's accepted
\* set is answered with an Error response carrying the command's correlation
\* id, and the recipient's state is unchanged
C16_ForeignVariantIsRefused ==
    [][/\ sup_last'.cmd.name \in SupForeignNames =>
              /\ sup_last'.published.res.tag = "Error"
              /\ sup_last'.published.uuid = sup_last'.uuid
              /\ UNCHANGED <<living, sup_pc, sup_listening, dead_instance,
                             type_res, sup_exit>>
       /\ bt_last'.cmd.name \in BtForeignNames =>
              /\ bt_last'.published.res.tag = "Error"
              /\ bt_last'.published.uuid = bt_last'.uuid
              /\ UNCHANGED <<running_backtests, bt, bt_listening, simbrokers,
                             bt_exit>>]_vars

\* the backtester has refused a spawner command while it held a backtest
C16_Witness ==
    /\ bt_last.cmd.name = "Census"
    /\ bt_last.published.res.tag = "Error"
    /\ bt_last.published.uuid = bt_last.uuid
    /\ running_backtests # {}

-----------------------------------------------------------------------------
(* Backtests whose stream is over                                           *)

\* the engine of backtest b has terminated: stopped, or its stream ran out
Terminated(b) == b \in 1..Len(bt) /\ ~Alive(b)

\* C11: a StopBacktest sent to a backtest whose engine has already terminated
\* (stopped earlier, the exit predicate fired, or the stream ended) is
\* answered with the not-found Error, not with Ok
C11_StopOfTerminatedIsNotFound ==
    [][(bt_last'.cmd.name = "StopBacktest" /\ Terminated(bt_last'.cmd.uuid)) =>
          bt_last'.published.res.tag = "Error"]_vars

\* C13: whenever the tick stream of a plain-sink backtest ends, for whichever
\* reason (the source is exhausted, the stream errors, the exit predicate
\* fires), the worker sends Stop on the internal control channel
C13_StreamEndSendsStop ==
    \A b \in 1..Len(bt) :
        (bt[b].def.data_dest.kind = "Sink" /\ bt[b].worker = "done") =>
            bt[b].stop_sent

-----------------------------------------------------------------------------
(* The living list as a set of instances                                    *)

\* C30: in every reachable state of the supervisor the living list holds at
\* most one record per instance id, under any interleaving of the command
\* listener with the heartbeat thread
C30_OneRecordPerId ==
    Cardinality(Uuids(living)) = Len(living)

-----------------------------------------------------------------------------
(* Ping and the SpawnX commands of the spawner                              *)

\* C22: a Ping published on the supervisor's personal channel or on the
\* control channel is answered on the responses channel with a Pong whose
\* first argument is the supervisor's own id in hyphenated form
C22_PingIsAnsweredWithOwnId ==
    sup_last.cmd.name = "Ping" =>
        /\ sup_last.cmd.channel \in {"control", "personal"}
        /\ sup_last.published.res.tag = "Pong"
        /\ Len(sup_last.published.res.val) >= 1
        /\ sup_last.published.res.val[1] = Hyphenated(OwnUuid)

\* a Ping that came in on the personal channel has been answered
C22_Witness ==
    /\ sup_last.cmd.name = "Ping"
    /\ sup_last.cmd.channel = "personal"
    /\ sup_last.published.res.tag = "Pong"
    /\ sup_last.published.uuid = sup_last.uuid

-----------------------------------------------------------------------------
(* The simple moving average                                                *)

\* C24: for every period and every tick t, push(t) on a newly created (empty)
\* SimpleMovingAverage returns t.mid
C24_FirstPushReturnsMid ==
    [][(sma.status = "new" /\ sma'.call = "push") =>
          /\ sma'.status = "ok"
          /\ sma'.out = mid(sma'.arg)]_vars

\* every tick pushed so far has the mid of the first
ConstantMid(h) == \A k \in 1..Len(h) : mid(h[k]) = mid(h[1])

\* the ticks pushed so far are evenly spaced in time
UniformSpacing(h) ==
    \A k \in 2..(Len(h) - 1) :
        h[k + 1].timestamp - h[k].timestamp = h[2].timestamp - h[1].timestamp

\* C25: for every tick stream whose ticks all have the same mid c and
\* uniformly spaced, strictly increasing timestamps, every push made after
\* the window has filled (a tick has been evicted) returns exactly c
C25_ConstantStreamAveragesToItsMid ==
    (/\ sma.call = "push" /\ sma.status = "ok"
     /\ ConstantMid(sma.hist) /\ UniformSpacing(sma.hist)
     /\ Len(sma.ticks) < Len(sma.hist)) =>
        sma.out = mid(sma.hist[1])

\* a push on a constant stream of three ticks two apart, one of them with
\* bid = 0, has averaged a window of two ticks and the evicted one
C25_Witness ==
    /\ sma.call = "push" /\ sma.status = "ok"
    /\ Len(sma.hist) = 3 /\ Len(sma.ticks) = 2
    /\ ConstantMid(sma.hist) /\ UniformSpacing(sma.hist)
    /\ sma.hist[2].timestamp - sma.hist[1].timestamp = 2
    /\ sma.ref_tick.bid # 0
    /\ sma.ticks[1].bid = 0
    /\ sma.out = 2

\* C26: push and push_tick detect an out-of-order tick: whenever the window is
\* non-empty and the pushed tick's timestamp is less than or equal to the
\* timestamp of the last pushed tick, the call fails (assertion) instead of
\* returning a value, and it fails before the tick is appended to the window
C26_OutOfOrderIsDetected ==
    [][(/\ sma' # sma
        /\ sma.ticks # <<>>
        /\ sma'.arg.timestamp <= Back(sma.hist).timestamp) =>
          /\ sma'.call \in {"push", "push_tick"}
          /\ sma'.status = "assert"
          /\ sma'.ticks = sma.ticks
          /\ sma'.hist = sma.hist]_vars

\* push_tick has refused a tick with the timestamp of the last one
C26_Witness ==
    /\ sma.call = "push_tick" /\ sma.status = "assert"
    /\ sma.ticks # <<>>
    /\ sma.arg.timestamp = Back(sma.hist).timestamp
    /\ sma.arg \notin {sma.hist[k] : k \in 1..Len(sma.hist)}

\* the window of the reference computation: the longest run of the newest
\* ticks that spans less than the period; WindowStart is its first index
WindowStart(h, period) ==
    CHOOSE k \in 1..Len(h) :
        /\ Back(h).timestamp - h[k].timestamp < period
        /\ k > 1 => Back(h).timestamp - h[k - 1].timestamp >= period

\* sum over the adjacent pairs of w[1..n] of older.mid * (newer.ts - older.ts)
RECURSIVE PairSum(_, _)
PairSum(w, n) ==
    IF n <= 1
    THEN 0
    ELSE PairSum(w, n - 1) + mid(w[n - 1]) * (w[n].timestamp - w[n - 1].timestamp)

\* the value of the reference computation after the ticks h were pushed
Reference(h, period) ==
    LET k == WindowStart(h, period)
        w == SubSeq(h, k, Len(h))
        reference == IF k > 1 THEN h[k - 1] ELSE NullTick
        p_sum == PairSum(w, Len(w))
        t_sum == Back(w).timestamp - w[1].timestamp
    IN  IF Len(w) = 1
        THEN mid(w[1])
        ELSE IF reference.bid # 0
        THEN (p_sum + mid(reference) * (period - t_sum)) \div period
        ELSE p_sum \div t_sum

\* C27: for every period and every strictly increasing tick sequence, each
\* push returns the value of the reference computation
C27_PushReturnsReference ==
    (sma.call = "push" /\ sma.status # "assert") =>
        /\ sma.status = "ok"
        /\ sma.out = Reference(sma.hist, sma.period)

\* the members of the list that have the period
WithPeriod(l, period) == {i \in 1..Len(l.smas) : l.smas[i].period = period}

\* C28: the SMAList is keyed by period: after any sequence of add(period) and
\* remove(period) calls the list holds at most one SMA per period, so after
\* remove(p) no SMA with period p remains and push_all feeds each period
\* exactly once
C28_ListIsKeyedByPeriod ==
    /\ \A period \in 1..MaxPeriod : Cardinality(WithPeriod(smas, period)) <= 1
    /\ smas.call = "remove" => WithPeriod(smas, smas.period) = {}
    /\ (smas.call = "push_all" /\ smas.status = "ok") =>
           \A period \in 1..MaxPeriod :
               Cardinality({i \in WithPeriod(smas, period) :
                               /\ smas.smas[i].hist # <<>>
                               /\ Back(smas.smas[i].hist) = smas.tick}) <= 1

-----------------------------------------------------------------------------
(* The codec                                                                *)

\* the enum value inside a value of one of the four types
InnerValue(type, v) == IF type \in {"Command", "Response"} THEN v ELSE v.inner

\* the tokens of the enum value inside an encoded text: all of it, or what
\* follows {"uuid":"...","cmd": in a wrapped one
InnerText(type, text) ==
    IF type \in {"Command", "Response"} THEN text ELSE SubSeq(text, 8, Len(text) - 1)

\* the tag of an encoded enum value: the string itself, or the one key of
\* the object
TagOf(text) ==
    IF Len(text) = 1
    THEN text[1]
    ELSE IF Head(text) = Punct("{") THEN text[2] ELSE Punct("?")

-----------------------------------------------------------------------------
(* The guards of the shared maps                                            *)

\* the thread holds the guard of some map
HoldsLock(thread) == \E map \in Maps : lk.holder[map] = thread

\* the thread is at a publish, waits for a response, or is blocked in a send
\* on a full channel
Suspended(thread) ==
    \/ AtStep(thread, "publish")
    \/ AtStep(thread, "await")
    \/ AtStep(thread, "send") /\ lk.chan = ChanCap

\* C21: no thread holds the lock of a shared map (living list,
\* running_backtests, simbrokers) while it publishes to the transport, waits
\* for a response, or performs another operation that can block
C21_NoLockAcrossSuspension ==
    \A thread \in Threads : ~(HoldsLock(thread) /\ Suspended(thread))

-----------------------------------------------------------------------------
(* The window of the moving average                                         *)

\* C32: after every successful push or push_tick on a SimpleMovingAverage,
\* for any period and any strictly increasing tick sequence, the window is
\* non-empty, its timestamps are strictly increasing, its newest element is
\* the tick just pushed, and back.timestamp - front.timestamp < period, so
\* that period - t_sum in the average never goes negative
C32_WindowIsWithinPeriod ==
    sma.status = "ok" =>
        /\ sma.call \in {"push", "push_tick"}
        /\ sma.ticks # <<>>
        /\ \A k \in 1..(Len(sma.ticks) - 1) :
               sma.ticks[k].timestamp < sma.ticks[k + 1].timestamp
        /\ Back(sma.ticks) = sma.arg
        /\ Back(sma.ticks).timestamp - Head(sma.ticks).timestamp < sma.period
        /\ sma.period - TSum(sma.ticks, 1) > 0

\* push_tick has evicted a tick and left a window of two ticks that spans one
\* unit less than the period
C32_Witness ==
    /\ sma.call = "push_tick" /\ sma.status = "ok"
    /\ Len(sma.hist) = 3 /\ Len(sma.ticks) = 2
    /\ sma.ref_tick = sma.hist[1]
    /\ Back(sma.ticks) = sma.arg
    /\ TSum(sma.ticks, 1) = sma.period - 1

-----------------------------------------------------------------------------
(* Forwarding a control event, step by step: the listener's critical        *)
(* sections around the send on the bounded channel, next to the engine and  *)
(* the worker of the backtest the event goes to                             *)

\* definitions the listener of SpecFwd is sent
FwdDefs ==
    {Definition(None, None, "Random", Sink),
     Definition(Some(1), None, "Random", Sink),
     Definition(None, None, "Flatfile", Sink)}

\* listen(): the arm of PauseBacktest and ResumeBacktest is send_backtest_cmd
\* and the publish of the reply; StopBacktest has remove_backtest in between
control_steps(name) ==
    send_backtest_cmd_steps(TRUE)
    \o (IF name = "StopBacktest" THEN Guarded("running_backtests") ELSE <<>>)
    \o <<Publish>>

\* the listener handling cmd, with these steps left; parked records that its
\* send found the channel full
Forwarding(cmd, uuid, steps) ==
    [holder |-> Unlocked.holder,
     steps  |-> [Unlocked.steps EXCEPT !["backtester"] = steps],
     chan   |-> 0,
     cmd    |-> cmd,
     uuid   |-> uuid,
     parked |-> FALSE]

\* the for loop of listen() is between two commands
FwdIdle == lk.steps["backtester"] = <<>>

\* the work step that is left is the one of remove_backtest
Removing ==
    /\ lk.cmd.name = "StopBacktest"
    /\ \A k \in DOMAIN lk.steps["backtester"] : lk.steps["backtester"][k].kind # "send"

\* listen(): StartBacktest, between two control commands
FwdListenStart ==
    /\ FwdIdle
    /\ \E def \in FwdDefs, uuid \in CorrUuids : ListenStart(def, uuid, 1)

\* listen(): the next message is a PauseBacktest, ResumeBacktest or
\* StopBacktest for an id of the handle map
FwdReceive ==
    /\ BtRunning /\ bt_listening /\ FwdIdle
    /\ \E name \in ControlNames, target \in running_backtests, uuid \in CorrUuids :
          lk' = Forwarding(BtCmd(name, target, BadDefinition), uuid, control_steps(name))
    /\ bt_last' = BtNoLast
    /\ UNCHANGED <<running_backtests, bt, bt_listening, simbrokers, bt_exit>>
    /\ UNCHANGED <<exitVars, supVars, smaVars, codec>>

\* handles.get(&uuid) in send_backtest_cmd, handles.remove(&uuid) in
\* remove_backtest
FwdWork ==
    /\ AtStep("backtester", "work")
    /\ lk' = Stepped("backtester")
    /\ running_backtests' =
           IF Removing THEN remove_backtest(running_backtests, lk.cmd.uuid)
           ELSE running_backtests
    /\ bt_last' = BtNoLast
    /\ UNCHANGED <<bt, bt_listening, simbrokers, bt_exit>>
    /\ UNCHANGED <<exitVars, supVars, smaVars, codec>>

\* sender.send(cmd) under the guard of running_backtests: the event is queued
\* (or dropped with an Err once the receiver is gone); on a full channel whose
\* receiver lives the thread parks until the generator has taken an event
FwdSend ==
    /\ AtStep("backtester", "send")
    /\ IF CanSend(lk.cmd.uuid)
       THEN /\ bt' = [Sent(lk.cmd.uuid, ControlEvent(lk.cmd.name)) EXCEPT
                        ![lk.cmd.uuid].resumed = @ \/ lk.cmd.name = "ResumeBacktest"]
            /\ lk' = Stepped("backtester")
       ELSE /\ ~lk.parked
            /\ lk' = [lk EXCEPT !.parked = TRUE]
            /\ UNCHANGED bt
    /\ bt_last' = BtNoLast
    /\ UNCHANGED <<running_backtests, bt_listening, simbrokers, bt_exit>>
    /\ UNCHANGED <<exitVars, supVars, smaVars, codec>>

\* listen(): the PUBLISH of res.wrap(wr_cmd.uuid) that ends the iteration
FwdPublish ==
    /\ AtStep("backtester", "publish")
    /\ lk' = Stepped("backtester")
    /\ bt_last' = [cmd |-> lk.cmd, uuid |-> lk.uuid,
                   published |-> Wrap(ResOk, lk.uuid),
                   sent |-> ControlEvent(lk.cmd.name)]
    /\ UNCHANGED <<running_backtests, bt, bt_listening, simbrokers, bt_exit>>
    /\ UNCHANGED <<exitVars, supVars, smaVars, codec>>

\* the next step of the thread that runs listen()
FwdListener == LkLock \/ FwdWork \/ FwdSend \/ LkUnlock \/ FwdPublish

FwdNext ==
    \/ FwdListenStart \/ FwdReceive
    \/ LkLock \/ FwdWork \/ FwdSend \/ LkUnlock \/ FwdPublish
    \/ BtEngineTake \/ BtTick \/ BtWorkerStop \/ BtStreamEnd \/ BtStreamErr

\* a backtester with no backtest, its listener between two commands
InitFwd ==
    /\ ce_def = [max_tick_n |-> None, max_timestamp |-> None]
    /\ ce_ts = 0
    /\ ce_i = 0
    /\ ce_called = FALSE
    /\ ce_out = FALSE
    /\ living = <<>>
    /\ sup_pc = "bootstrap"
    /\ sup_listening = FALSE
    /\ dead_instance = NoInstance
    /\ type_res = TypeNone
    /\ kills = <<>>
    /\ sup_exit = "no"
    /\ sup_last = NoLast
    /\ stragglers = <<>>
    /\ launched = NoLaunch
    /\ running_backtests = {}
    /\ bt = <<>>
    /\ bt_listening = TRUE
    /\ bt_last = BtNoLast
    /\ simbrokers = {}
    /\ bt_exit = "no"
    /\ sma = Absent
    /\ smas = Absent
    /\ codec = Absent
    /\ lk = Forwarding(BtNoLast.cmd, 0, <<>>)

\* the thread of listen() and the thread of the stream's generator are
\* threads of the operating system: each one runs when it can
SpecFwd ==
    /\ InitFwd /\ [][FwdNext]_vars
    /\ WF_vars(FwdListener)
    /\ WF_vars(BtEngineTake)

\* the listener is handling a control command for a registered backtest
FwdHandling == ~FwdIdle

\* the reply to the command the listener took up last is out
FwdReplied ==
    /\ FwdIdle
    /\ bt_last.cmd = lk.cmd
    /\ bt_last.published = Wrap(ResOk, lk.uuid)

\* C33: handling PauseBacktest, ResumeBacktest or StopBacktest for an id of
\* the handle map always completes and publishes its reply, however many
\* control events were forwarded before and whether or not the worker still
\* consumes ticks: the send into the bounded channel under the guard of the
\* handle map never blocks the listener forever
C33_ForwardingCompletes == FwdHandling ~> FwdReplied

\* the reply is out after a send that found five events in the channel
C33_Witness ==
    /\ FwdReplied /\ lk.parked
    /\ bt_last.cmd.name \in ControlNames

-----------------------------------------------------------------------------
(* One response for each command, in turn                                   *)

\* the command of the record is one the listener parsed
WellFormed(last) == last.cmd.name \notin {"none", "malformed"}

\* the record holds the response to its command
Answered(last) ==
    /\ last.published.res.tag # "none"
    /\ last.published.uuid = last.uuid

-----------------------------------------------------------------------------
(* The heartbeat and an instance that has died                              *)

\* the uuid of the instance that dies: no Pong of PingResponses names it
DeadUuid == MaxInst + 1

\* records in the living list of SpecHb: at most this many
HbMaxLiving == 4

\* handle_command: Ready{instance_type, uuid} from the instance with this uuid
HbReady(u) ==
    /\ SupRunning /\ sup_listening
    /\ Len(living) + SelfPending < HbMaxLiving
    /\ living' = SupLiving(CmdReady("MM", u), living)
    /\ sup_last' = [cmd |-> CmdReady("MM", u), uuid |-> 1,
                    published |-> Wrap(SupResponse(CmdReady("MM", u), living), 1)]
    /\ launched' = NoLaunch
    /\ kills' = <<>>
    /\ UNCHANGED <<sup_pc, sup_listening, dead_instance, type_res, sup_exit, stragglers>>
    /\ SupFrame

\* the instances send their Ready while init() sleeps before it registers
\* itself, so that the rounds of the heartbeat run over a list no command
\* changes; an instance that goes on living may send Ready more than once
HbReadyLiving ==
    /\ sup_pc = "register"
    /\ \E u \in InstUuids : HbReady(u)

\* the instance that dies sends one Ready; from the first round of the
\* heartbeat on it is silent
HbReadyDying ==
    /\ sup_pc = "register"
    /\ DeadUuid \notin Uuids(living)
    /\ HbReady(DeadUuid)

\* the Type query of a round: the retries to the dead instance all time out
HbQuery ==
    /\ HbType
    /\ dead_instance.uuid = DeadUuid => type_res' = TypeErr

\* the next step of the thread that runs init()
Heartbeat ==
    \/ Bootstrap \/ StartListen \/ RegisterSelf
    \/ HbPing \/ HbRemove \/ HbQuery \/ HbSleep

HbNext ==
    \/ Bootstrap \/ StartListen \/ RegisterSelf
    \/ HbPing \/ HbRemove \/ HbQuery \/ HbSleep
    \/ HbReadyLiving \/ HbReadyDying

\* the thread of init() runs whenever it can: ping_all and the Type query
\* resolve after their timeouts, and the sleep of 350 ms ends
SpecHb == InitAll /\ [][HbNext]_vars /\ WF_vars(Heartbeat)

\* C31: under fair scheduling of the heartbeat loop, every instance of the
\* living list that has stopped answering both Ping and Type for good is
\* removed from the list in the end, though a round looks at the first
\* missing instance only and though other instances miss Pongs and answer
\* the Type query
C31_DeadInstanceIsRemoved ==
    (DeadUuid \in Uuids(living)) ~> (DeadUuid \notin Uuids(living))

=============================================================================
